---- MODULE Spec2Model ----
(***************************************************************************)
(* A model of the Firebase REST facade: the response envelope builders,    *)
(* the Auth service, the authorization / validation / rate-limit           *)
(* middleware, the routers' middleware chains and the Firestore document   *)
(* service.  Remote calls are suspension points: a request runs from one   *)
(* await to the next in a single step.                                     *)
(***************************************************************************)
EXTENDS Integers, Sequences, FiniteSets, TLC

\* ------------------------------------------------------------------ bounds
\* maxRequests of a limiter instance (50 and 200 in the routers), scaled down
MaxRequests == 2
\* windowMs of a limiter instance (15 * 60 * 1000 in the routers), scaled down
WindowMs == 1500
\* the clock advances in steps of TickMs up to MaxClock
TickMs == 500
MaxClock == 2000
\* requests observed by the limiter under test in SpecRate
MaxHist == 4
\* Firestore requests started in a run of SpecDoc or SpecBatch
MaxCalls == 3
\* the largest batch the /batch route accepts (500 in the router), scaled down
MaxBatchOps == 3
\* the longest string leaf the sanitizer is run on, in pieces
MaxText == 4

\* ---------------------------------------------------------------- universes
Null == "null"
Uids == {"alice", "bob"}
BearerPrefix == "Bearer "

\* An Authorization header is a sequence of chunks; the chunk "Bearer " is the
\* literal scheme prefix, every other chunk is text that does not contain it.
\* <<>> is the absent (or empty) header.
Headers ==
  { <<>>,
    <<"Basic ", "tokA">>,
    <<BearerPrefix>>,
    <<BearerPrefix, "tokA">>,
    <<BearerPrefix, "tokB">>,
    <<BearerPrefix, "bad">>,
    <<BearerPrefix, "tokA", BearerPrefix, "tokB">> }

\* The provider's tokens: the identity each valid ID token was issued to.
TokenOwner == (<<"tokA">> :> "alice") @@ (<<"tokB">> :> "bob")

\* customClaims of a user record (exists = FALSE: no such user)
NoUser == [exists |-> FALSE, role |-> Null, roles |-> {}]
ClaimSets ==
  { [exists |-> TRUE, role |-> Null, roles |-> {}],
    [exists |-> TRUE, role |-> "admin", roles |-> {}],
    [exists |-> TRUE, role |-> Null, roles |-> {"admin"}],
    [exists |-> TRUE, role |-> "editor", roles |-> {"editor"}] }

\* ------------------------------------------------------- response envelopes
\* FirebaseResponse.success (timestamp and timing left out)
ResponseSuccess(data, message) ==
  [success |-> TRUE, message |-> message, data |-> data]

\* FirebaseResponse.error: code is error.code || 'UNKNOWN_ERROR', message is the
\* text of the error; the additional context is kept together under context
ResponseError(code, operation, context) ==
  [success |-> FALSE,
   error |-> [message |-> "error.message",
              code |-> IF code = Null THEN "UNKNOWN_ERROR" ELSE code,
              operation |-> operation, context |-> context]]

\* FirebaseResponse.validation
ResponseValidation(errors) ==
  [success |-> FALSE, message |-> "Validation failed", errors |-> errors,
   type |-> "VALIDATION_ERROR"]

\* FirebaseResponse.unauthorized
ResponseUnauthorized(message, code) ==
  [success |-> FALSE, message |-> message,
   error |-> [code |-> code, type |-> "AUTHENTICATION_ERROR"]]

\* FirebaseResponse.forbidden
ResponseForbidden(message, code) ==
  [success |-> FALSE, message |-> message,
   error |-> [code |-> code, type |-> "AUTHORIZATION_ERROR"]]

\* FirebaseResponse.notFound
ResponseNotFound(resource, identifier) ==
  [success |-> FALSE, message |-> "not found",
   error |-> [code |-> "NOT_FOUND", type |-> "RESOURCE_ERROR",
              resource |-> resource, identifier |-> identifier]]

\* FirebaseResponse.paginated
ResponsePaginated(data, pagination) ==
  [success |-> TRUE, message |-> "Data retrieved successfully", data |-> data,
   pagination |-> pagination]

\* variant of ResponseBatch whose success means that some operation succeeded
ResponseBatchAnySuccess(results, operation) ==
  LET successful == SelectSeq(results, LAMBDA r : r.success)
      failed == SelectSeq(results, LAMBDA r : ~r.success)
  IN  [success |-> Len(successful) > 0,
       message |-> <<operation, "completed", Len(successful), Len(failed)>>,
       summary |-> [total |-> Len(results), successful |-> Len(successful),
                    failed |-> Len(failed)],
       results |-> results]

\* FirebaseResponse.batch (the message, successRate and timestamp left out)
ResponseBatch(results, operation) ==
  LET successful == SelectSeq(results, LAMBDA r : r.success)
      failed == SelectSeq(results, LAMBDA r : ~r.success)
  IN  [success |-> Len(failed) = 0,
       message |-> <<operation, "completed", Len(successful), Len(failed)>>,
       summary |-> [total |-> Len(results), successful |-> Len(successful),
                    failed |-> Len(failed)],
       results |-> results]

\* ------------------------------------------------------------- Auth service
\* What the provider's verifyIdToken can answer for a token: "ok", or the code
\* of the error it throws.  Revocation is reported only when checkRevoked is set.
VerifyOutcomes(idToken, checkRevoked) ==
  IF idToken \in DOMAIN TokenOwner
    THEN {"ok", "auth/id-token-expired"}
         \cup (IF checkRevoked THEN {"auth/id-token-revoked"} ELSE {})
    ELSE {"auth/invalid-id-token", "auth/argument-error"}

\* variant of VerifyIdToken that leaves the expired code unmapped
VerifyIdTokenExpiredUnmapped(idToken, outcome) ==
  IF idToken = <<>> THEN ResponseUnauthorized("Authorization token required", "MISSING_TOKEN")
  ELSE IF outcome = "ok"
    THEN ResponseSuccess([uid |-> TokenOwner[idToken]], "Token verified successfully")
  ELSE IF outcome = "auth/id-token-revoked"
    THEN ResponseUnauthorized("Token has been revoked", "TOKEN_REVOKED")
  ELSE IF outcome = "auth/invalid-id-token"
    THEN ResponseUnauthorized("Invalid or expired token", "INVALID_TOKEN")
  ELSE ResponseError(outcome, "verifyIdToken", Null)

\* AuthService.verifyIdToken, given the provider's answer
VerifyIdToken(idToken, outcome) ==
  IF idToken = <<>> THEN ResponseUnauthorized("Authorization token required", "MISSING_TOKEN")
  ELSE IF outcome = "ok"
    THEN ResponseSuccess([uid |-> TokenOwner[idToken]], "Token verified successfully")
  ELSE IF outcome = "auth/id-token-expired"
    THEN ResponseUnauthorized("Invalid or expired token", "INVALID_TOKEN")
  ELSE IF outcome = "auth/id-token-revoked"
    THEN ResponseUnauthorized("Token has been revoked", "TOKEN_REVOKED")
  ELSE IF outcome = "auth/invalid-id-token"
    THEN ResponseUnauthorized("Invalid or expired token", "INVALID_TOKEN")
  ELSE ResponseError(outcome, "verifyIdToken", Null)

\* AuthService.getUserByUid against the provider's user records
GetUserByUid(records, uid) ==
  IF uid \in DOMAIN records /\ records[uid].exists
    THEN ResponseSuccess([uid |-> uid,
                          customClaims |-> [role |-> records[uid].role,
                                            roles |-> records[uid].roles]],
                         "User retrieved successfully")
    ELSE ResponseNotFound("User", uid)

\* ------------------------------------------------------------- rate limiter
\* Math.ceil(a / b) for b > 0
CeilDiv(a, b) == -((-a) \div b)

\* timestamps.filter(timestamp => timestamp > windowStart)
FilterNewer(timestamps, windowStart) ==
  SelectSeq(timestamps, LAMBDA t : t > windowStart)

\* the sweep over requests.entries(): filter every key, delete the empty ones
Evict(requests, windowStart) ==
  LET kept == {k \in DOMAIN requests : FilterNewer(requests[k], windowStart) # <<>>}
  IN  [k \in kept |-> FilterNewer(requests[k], windowStart)]

\* const key = req.user?.uid || req.ip
RateLimitKey(user, ip) == IF user # Null THEN user ELSE ip

\* variant of RateLimit that also records the timestamp of a rejected request
RateLimitCountsRejected(requests, key, t, maxRequests, windowMs) ==
  LET windowStart == t - windowMs
      swept == Evict(requests, windowStart)
      keyRequests == IF key \in DOMAIN swept THEN swept[key] ELSE <<>>
      recentRequests == FilterNewer(keyRequests, windowStart)
      recorded == [k \in DOMAIN swept \cup {key} |->
                     IF k = key THEN Append(recentRequests, t) ELSE swept[k]]
  IN  IF Len(recentRequests) >= maxRequests
        THEN [pass |-> FALSE, requests |-> recorded,
              retryAfter |-> CeilDiv(recentRequests[1] + windowMs - t, 1000)]
        ELSE [pass |-> TRUE, requests |-> recorded, retryAfter |-> 0]

\* variant of RateLimit whose check lets one request more than the maximum in
RateLimitOneOver(requests, key, t, maxRequests, windowMs) ==
  LET windowStart == t - windowMs
      swept == Evict(requests, windowStart)
      keyRequests == IF key \in DOMAIN swept THEN swept[key] ELSE <<>>
      recentRequests == FilterNewer(keyRequests, windowStart)
  IN  IF Len(recentRequests) > maxRequests
        THEN [pass |-> FALSE, requests |-> swept,
              retryAfter |-> CeilDiv(recentRequests[1] + windowMs - t, 1000)]
        ELSE [pass |-> TRUE,
              requests |-> [k \in DOMAIN swept \cup {key} |->
                              IF k = key THEN Append(recentRequests, t) ELSE swept[k]],
              retryAfter |-> 0]

\* One call of the middleware createFirebaseRateLimit(maxRequests, windowMs)
\* returns, at time t, for the key: the map afterwards, whether next() is
\* called, and the retryAfter of the 429 envelope otherwise.
RateLimit(requests, key, t, maxRequests, windowMs) ==
  LET windowStart == t - windowMs
      swept == Evict(requests, windowStart)
      keyRequests == IF key \in DOMAIN swept THEN swept[key] ELSE <<>>
      recentRequests == FilterNewer(keyRequests, windowStart)
  IN  IF Len(recentRequests) >= maxRequests
        THEN [pass |-> FALSE, requests |-> swept,
              retryAfter |-> CeilDiv(recentRequests[1] + windowMs - t, 1000)]
        ELSE [pass |-> TRUE,
              requests |-> [k \in DOMAIN swept \cup {key} |->
                              IF k = key THEN Append(recentRequests, t) ELSE swept[k]],
              retryAfter |-> 0]

\* ------------------------------------------------------------------- routes
\* The middleware chains, in the order the routers declare them.  Both routers
\* start with router.use(addFirebaseContext) and
\* router.use(createFirebaseRateLimit(...)).
RouterUse == <<"addFirebaseContext", "createFirebaseRateLimit">>

RouteTable ==
  [r \in {} |-> <<>>]
  @@ ("POST /auth/verify-token" :>
        [router |-> "auth", service |-> "verifyIdToken", ok |-> 200, fail |-> 401,
         chain |-> RouterUse \o <<"logFirebaseOperation", "validateBody", "handler">>])
  @@ ("POST /auth/custom-token" :>
        [router |-> "auth", service |-> "createCustomToken", ok |-> 200, fail |-> 400,
         chain |-> RouterUse \o <<"logFirebaseOperation", "validateBody", "handler">>])
  @@ ("GET /auth/profile" :>
        [router |-> "auth", service |-> "getUserByUid", ok |-> 200, fail |-> 404,
         chain |-> RouterUse \o <<"verifyFirebaseToken", "logFirebaseOperation", "handler">>])
  @@ ("PUT /auth/profile" :>
        [router |-> "auth", service |-> "updateUser", ok |-> 200, fail |-> 400,
         chain |-> RouterUse \o <<"verifyFirebaseToken", "sanitizeFirebaseData",
                                  "validateParams", "validateBody",
                                  "logFirebaseOperation", "handler">>])
  @@ ("POST /auth/admin/users" :>
        [router |-> "auth", service |-> "createUser", ok |-> 201, fail |-> 400,
         chain |-> RouterUse \o <<"verifyFirebaseToken", "requireAdmin",
                                  "sanitizeFirebaseData", "validateParams", "validateBody",
                                  "logFirebaseOperation", "handler">>])
  @@ ("GET /auth/admin/users/:uid" :>
        [router |-> "auth", service |-> "getUserByUid", ok |-> 200, fail |-> 404,
         chain |-> RouterUse \o <<"verifyFirebaseToken", "requireAdmin", "validateParams",
                                  "logFirebaseOperation", "handler">>])
  @@ ("GET /auth/admin/users/email/:email" :>
        [router |-> "auth", service |-> "getUserByEmail", ok |-> 200, fail |-> 404,
         chain |-> RouterUse \o <<"verifyFirebaseToken", "requireAdmin", "validateParams",
                                  "logFirebaseOperation", "handler">>])
  @@ ("PUT /auth/admin/users/:uid" :>
        [router |-> "auth", service |-> "updateUser", ok |-> 200, fail |-> 400,
         chain |-> RouterUse \o <<"verifyFirebaseToken", "requireAdmin", "validateParams",
                                  "sanitizeFirebaseData", "validateParams", "validateBody",
                                  "logFirebaseOperation", "handler">>])
  @@ ("DELETE /auth/admin/users/:uid" :>
        [router |-> "auth", service |-> "deleteUser", ok |-> 200, fail |-> 400,
         chain |-> RouterUse \o <<"verifyFirebaseToken", "requireAdmin", "validateParams",
                                  "logFirebaseOperation", "handler">>])
  @@ ("GET /auth/admin/users" :>
        [router |-> "auth", service |-> "listUsers", ok |-> 200, fail |-> 400,
         chain |-> RouterUse \o <<"verifyFirebaseToken", "requireAdmin", "validateQuery",
                                  "logFirebaseOperation", "handler">>])
  @@ ("POST /auth/admin/users/:uid/claims" :>
        [router |-> "auth", service |-> "setCustomUserClaims", ok |-> 200, fail |-> 400,
         chain |-> RouterUse \o <<"verifyFirebaseToken", "requireAdmin", "validateParams",
                                  "validateBody", "logFirebaseOperation", "handler">>])
  @@ ("POST /auth/admin/users/:uid/revoke-tokens" :>
        [router |-> "auth", service |-> "revokeRefreshTokens", ok |-> 200, fail |-> 400,
         chain |-> RouterUse \o <<"verifyFirebaseToken", "requireAdmin", "validateParams",
                                  "logFirebaseOperation", "handler">>])
  @@ ("POST /auth/admin/password-reset-link" :>
        [router |-> "auth", service |-> "generatePasswordResetLink", ok |-> 200, fail |-> 400,
         chain |-> RouterUse \o <<"verifyFirebaseToken", "requireAdmin", "validateBody",
                                  "logFirebaseOperation", "handler">>])
  @@ ("POST /auth/admin/email-verification-link" :>
        [router |-> "auth", service |-> "generateEmailVerificationLink", ok |-> 200, fail |-> 400,
         chain |-> RouterUse \o <<"verifyFirebaseToken", "requireAdmin", "validateBody",
                                  "logFirebaseOperation", "handler">>])
  @@ ("POST /firestore/collections/:collection/documents" :>
        [router |-> "firestore", service |-> "createDocument", ok |-> 201, fail |-> 400,
         chain |-> RouterUse \o <<"verifyFirebaseToken", "sanitizeFirebaseData",
                                  "validateParams", "validateBody",
                                  "logFirebaseOperation", "handler">>])
  @@ ("GET /firestore/collections/:collection/documents/:id" :>
        [router |-> "firestore", service |-> "getDocument", ok |-> 200, fail |-> 404,
         chain |-> RouterUse \o <<"optionalFirebaseAuth", "sanitizeFirebaseData",
                                  "validateParams", "logFirebaseOperation", "handler">>])
  @@ ("DELETE /firestore/collections/:collection/documents/:id" :>
        [router |-> "firestore", service |-> "deleteDocument", ok |-> 200, fail |-> 404,
         chain |-> RouterUse \o <<"verifyFirebaseToken", "sanitizeFirebaseData",
                                  "validateParams", "validateQuery",
                                  "logFirebaseOperation", "handler">>])
  @@ ("POST /firestore/batch" :>
        [router |-> "firestore", service |-> "batchOperations", ok |-> 200, fail |-> 400,
         chain |-> RouterUse \o <<"verifyFirebaseToken", "validateBody",
                                  "logFirebaseOperation", "handler">>])

Routes == DOMAIN RouteTable
\* variant of Chain that has verifyFirebaseToken before the /custom-token handler
ChainGuardsCustomToken(route) ==
  IF route = "POST /auth/custom-token"
    THEN RouterUse \o <<"verifyFirebaseToken", "logFirebaseOperation", "validateBody",
                        "handler">>
    ELSE RouteTable[route].chain

Chain(route) == RouteTable[route].chain

\* the routes mounted under /api/firebase/auth/admin/
AdminRoutes ==
  { "POST /auth/admin/users", "GET /auth/admin/users/:uid",
    "GET /auth/admin/users/email/:email", "PUT /auth/admin/users/:uid",
    "DELETE /auth/admin/users/:uid", "GET /auth/admin/users",
    "POST /auth/admin/users/:uid/claims", "POST /auth/admin/users/:uid/revoke-tokens",
    "POST /auth/admin/password-reset-link", "POST /auth/admin/email-verification-link" }

HasStage(route, stage) == \E i \in 1..Len(Chain(route)) : Chain(route)[i] = stage

\* the request parts a route validates against a schema
ValidatedParts(route) ==
  {p \in {"params", "body", "query"} :
     HasStage(route, IF p = "params" THEN "validateParams"
                     ELSE IF p = "body" THEN "validateBody" ELSE "validateQuery")}

\* -------------------------------------------------------------------- state
VARIABLES
  req,          \* the request in flight through a router (pc = "idle": none)
  users,        \* the provider's user records: uid -> custom claims
  limiters,     \* router -> the Map `requests` of its rate limiter instance
  now,          \* Date.now()
  hist,         \* what the limiter under test has answered so far (history)
  store,        \* the documents of the collection at the provider: id -> fields
  calls,        \* slot -> the Firestore request in flight in it (pc = "idle": none)
  nextAuto,     \* index of the next automatic document id the provider hands out
  started,      \* number of Firestore requests started so far
  hardDeleted,  \* ids whose hard delete returned success and were not written since (history)
  lastCreate,   \* the latest successful createDocument: its data and returned id (history)
  san,          \* the request the sanitizer ran on last: its body before and after
  built,        \* the envelope a response builder produced last, and the builder
  fb,           \* the process: its environment, the provider handle, the services,
                \* and what the last call or request was answered
  own,          \* the request requireOwnership ran on last, and what it did
  val, \* the part validateFirebase ran on last, and what it did
  caught  \* two failed requests: where they were caught and what was answered

pipeVars == <<req, users, limiters, now, hist>>
docVars == <<store, calls, nextAuto, started, hardDeleted, lastCreate>>
libVars == <<san, built, fb, own, val, caught>>
vars == <<req, users, limiters, now, hist,
          store, calls, nextAuto, started, hardDeleted, lastCreate, san, built, fb, own, val, caught>>

EmptyMap == [k \in {} |-> <<>>]
NoResp == [none |-> TRUE]
NoBody == [idToken |-> <<>>, checkRevoked |-> FALSE]
NoClaims == [exists |-> FALSE, role |-> Null, roles |-> {}]
EmptyDoc == [k \in {} |-> Null]
EmptyStore == [k \in {} |-> EmptyDoc]
\* the Firestore requests that can be in flight together
Slots == {1, 2}

\* nothing sanitized yet
NoSanitized == [ran |-> FALSE, key |-> <<>>, value |-> <<>>, body |-> [k \in {} |-> <<>>]]

\* a Firestore request slot; the fields from count on are history: the number
\* of operations of a batch, whether its commit succeeded, the indexes of the
\* operations whose write was applied, the store before it, whether a hard
\* delete was started after one had succeeded, whether it issued delete(),
\* whether a get reads the id the latest create returned, and the data created
\* the four capability services of the index module
Services == {"auth", "firestore", "storage", "realtimeDb"}

\* process.env as config/firebase-admin reads it: which variables are set, and
\* whether the inline key material is one admin.credential.cert accepts
Env(projectId, privateKey, clientEmail, accountPath, gac, keyValid) ==
  [projectId |-> projectId, privateKey |-> privateKey, clientEmail |-> clientEmail,
   accountPath |-> accountPath, gac |-> gac, keyValid |-> keyValid]

\* nothing was called or requested yet
IdleLast ==
  [kind |-> "none", op |-> Null, outcome |-> Null, success |-> FALSE,
   initError |-> FALSE, remote |-> FALSE, built |-> FALSE, appBefore |-> 0,
   handle |-> 0, method |-> Null, path |-> Null, status |-> 0,
   configured |-> FALSE, routed |-> FALSE, body |-> NoResp]

\* the process before its modules are loaded: let firebaseApp = null (0), every
\* service uninitialized, FirebaseAdmin.initialized = false
NoFirebase ==
  [pc |-> "boot", env |-> Env(FALSE, FALSE, FALSE, FALSE, FALSE, FALSE),
   files |-> [account |-> "absent", adc |-> FALSE], mounted |-> Null,
   firebaseApp |-> 0, constructed |-> 0, failed |-> FALSE, source |-> Null,
   adminInitialized |-> FALSE, services |-> [s \in Services |-> FALSE],
   last |-> IdleLast]

\* no request has failed
NoCaught ==
  [ran |-> FALSE, site |-> Null, mode |-> Null,
   first |-> [message |-> "", stack |-> ""], second |-> [message |-> "", stack |-> ""],
   a |-> [status |-> 0, body |-> NoResp], b |-> [status |-> 0, body |-> NoResp]]

\* validateFirebase has not run
NoValidation ==
  [ran |-> FALSE, schema |-> Null, before |-> [f \in {} |-> ""],
   out |-> [part |-> [f \in {} |-> ""], next |-> 0, status |-> 0, body |-> NoResp]]

\* requireOwnership has not run
NoOwnership ==
  [ran |-> FALSE, user |-> Null, paramName |-> "id",
   params |-> [n \in {"id", "uid"} |-> Null], body |-> [userId |-> Null],
   out |-> [next |-> FALSE, status |-> 0, body |-> NoResp]]

IdleCall ==
  [pc |-> "idle", op |-> Null, id |-> Null, hardDelete |-> FALSE,
   userId |-> Null, status |-> 0, result |-> NoResp, count |-> 0,
   committed |-> FALSE, applied |-> {}, before |-> EmptyStore,
   afterHardDelete |-> FALSE, deleteIssued |-> FALSE,
   roundTrip |-> FALSE, sent |-> EmptyDoc,
   filters |-> <<>>, includeDeleted |-> FALSE, term |-> Null]
NoCreate == [valid |-> FALSE, data |-> EmptyDoc, id |-> Null]

IdleReq ==
  [pc |-> "idle", route |-> Null, header |-> <<>>, ip |-> Null, invalid |-> Null,
   body |-> NoBody, user |-> Null, at |-> 0, token |-> <<>>,
   status |-> 0, resp |-> NoResp, handlerCalled |-> FALSE,
   authCalls |-> 0, adminCalls |-> 0, rlKey |-> Null, roleSeen |-> NoClaims,
   rolePassed |-> FALSE, retryOfDenied |-> FALSE, verifyOutcome |-> Null,
   sent |-> 0, sanitized |-> FALSE, rawSeen |-> FALSE]

NewReq(route, header, ip, invalid, body) ==
  [IdleReq EXCEPT !.pc = "run", !.route = route, !.header = header, !.ip = ip,
                  !.invalid = invalid, !.body = body]

\* r was answered 403 INSUFFICIENT_ROLE
DeniedRole(r) ==
  r.pc = "done" /\ r.status = 403 /\ r.resp.error.code = "INSUFFICIENT_ROLE"

\* variant of Respond after which the stage goes on to call next()
RespondAndNext(r, status, body) ==
  [r EXCEPT !.status = status, !.resp = body, !.sent = @ + 1,
            !.pc = IF @ = "run" THEN "run" ELSE "done"]

\* return res.status(status).json(body): the request is answered (sent counts
\* the responses written), and the stage returns without calling next()
Respond(r, status, body) ==
  [r EXCEPT !.pc = "done", !.status = status, !.resp = body, !.sent = @ + 1]

\* ------------------------------------------------------- middleware stages
\* authHeader.startsWith('Bearer ')
StartsWithBearer(header) == Len(header) > 0 /\ header[1] = BearerPrefix

\* the chunks of s before its first "Bearer " chunk
RECURSIVE UpToBearer(_)
UpToBearer(s) ==
  IF s = <<>> \/ Head(s) = BearerPrefix THEN <<>>
  ELSE <<Head(s)>> \o UpToBearer(Tail(s))

\* authHeader.split('Bearer ')[1] of a header that starts with 'Bearer '
TokenOf(header) == UpToBearer(Tail(header))

\* variant of VerifyTokenSync that answers 401 whether or not auth is optional
VerifyTokenSyncNeverOptional(r, i, optional) ==
  IF ~StartsWithBearer(r.header)
    THEN Respond(r, 401, ResponseUnauthorized("Authorization token required", "MISSING_TOKEN"))
  ELSE IF TokenOf(r.header) = <<>>
    THEN Respond(r, 401, ResponseUnauthorized("Invalid authorization format", "INVALID_FORMAT"))
  ELSE [r EXCEPT !.pc = "verify", !.at = i, !.token = TokenOf(r.header),
                 !.authCalls = @ + 1]

\* verifyFirebaseToken(options), up to its await: a response, next(), or the
\* call of authService.verifyIdToken
VerifyTokenSync(r, i, optional) ==
  IF ~StartsWithBearer(r.header)
    THEN IF optional THEN [r EXCEPT !.user = Null, !.at = i + 1]
         ELSE Respond(r, 401, ResponseUnauthorized("Authorization token required", "MISSING_TOKEN"))
  ELSE IF TokenOf(r.header) = <<>>
    THEN IF optional THEN [r EXCEPT !.user = Null, !.at = i + 1]
         ELSE Respond(r, 401, ResponseUnauthorized("Invalid authorization format", "INVALID_FORMAT"))
  ELSE [r EXCEPT !.pc = "verify", !.at = i, !.token = TokenOf(r.header),
                 !.authCalls = @ + 1]

\* requireRole(requiredRole), up to its await
RequireRoleSync(r, i) ==
  IF r.user = Null
    THEN Respond(r, 401, ResponseUnauthorized("Authentication required for role check", "UNAUTHORIZED"))
    ELSE [r EXCEPT !.pc = "role", !.at = i, !.authCalls = @ + 1]

\* variant of HasRole that reads the roles list only
HasRoleListOnly(customClaims, requiredRole) ==
  requiredRole \in customClaims.roles

\* userRoles.includes(requiredRole) || userRole === requiredRole
HasRole(customClaims, requiredRole) ==
  requiredRole \in customClaims.roles \/ customClaims.role = requiredRole

\* validateFirebase(schema, source): the part fails its schema or next().
\* rawSeen records that the schema was given a body or query that
\* sanitizeFirebaseData had not rewritten.
ValidateSync(r, i, source) ==
  LET seen == [r EXCEPT !.rawSeen = @ \/ (source \in {"body", "query"} /\ ~r.sanitized)]
  IN  IF r.invalid = source
        THEN Respond(seen, 400, ResponseValidation(<<source>>))
        ELSE [seen EXCEPT !.at = i + 1]

\* the route handler, up to its await: its one service call is issued
HandlerSync(r, i) ==
  [r EXCEPT !.pc = "handler", !.at = i, !.handlerCalled = TRUE,
            !.authCalls = IF RouteTable[r.route].router = "auth" THEN @ + 1 ELSE @,
            !.adminCalls = IF r.route \in AdminRoutes THEN @ + 1 ELSE @]

\* the limiter stage of a router: a 429 error envelope or next()
RateLimitSync(r, i, out) ==
  IF out.pass
    THEN [r EXCEPT !.at = i + 1, !.rlKey = RateLimitKey(r.user, r.ip)]
    ELSE Respond([r EXCEPT !.rlKey = RateLimitKey(r.user, r.ip)], 429,
                 ResponseError(Null, "rate limiting",
                               [maxRequests |-> MaxRequests, windowMs |-> WindowMs,
                                retryAfter |-> out.retryAfter]))

\* Express runs the chain of r from stage i until a stage answers or awaits.
\* lims are the limiters' maps, t is Date.now().
RECURSIVE RunChain(_, _, _, _)
RunChain(r, i, lims, t) ==
  LET stage == Chain(r.route)[i]
      router == RouteTable[r.route].router
      out == RateLimit(lims[router], RateLimitKey(r.user, r.ip), t, MaxRequests, WindowMs)
      r2 == CASE stage = "createFirebaseRateLimit" -> RateLimitSync(r, i, out)
              [] stage = "verifyFirebaseToken" -> VerifyTokenSync(r, i, FALSE)
              [] stage = "optionalFirebaseAuth" -> VerifyTokenSync(r, i, TRUE)
              [] stage = "requireAdmin" -> RequireRoleSync(r, i)
              [] stage = "validateParams" -> ValidateSync(r, i, "params")
              [] stage = "validateBody" -> ValidateSync(r, i, "body")
              [] stage = "validateQuery" -> ValidateSync(r, i, "query")
              [] stage = "handler" -> HandlerSync(r, i)
              [] stage = "sanitizeFirebaseData" ->
                   [r EXCEPT !.at = i + 1, !.sanitized = TRUE]
              [] OTHER -> [r EXCEPT !.at = i + 1]
      lims2 == IF stage = "createFirebaseRateLimit"
                 THEN [lims EXCEPT ![router] = out.requests] ELSE lims
  IN  IF r2.pc = "run" THEN RunChain(r2, i + 1, lims2, t)
      ELSE [req |-> r2, lims |-> lims2]

\* variant of VerifyTokenResume that lets a failed token through as anonymous
\* where authentication is optional
VerifyTokenResumeDowngrades(r, verificationResult) ==
  IF ~verificationResult.success
    THEN IF Chain(r.route)[r.at] = "optionalFirebaseAuth"
           THEN [r EXCEPT !.pc = "run", !.user = Null]
           ELSE Respond(r, 401, verificationResult)
    ELSE [r EXCEPT !.pc = "run", !.user = verificationResult.data.uid]

\* verifyFirebaseToken after its await: 401 with the service's envelope, or
\* req.user = verificationResult.data and next()
VerifyTokenResume(r, verificationResult) ==
  IF ~verificationResult.success
    THEN Respond(r, 401, verificationResult)
    ELSE [r EXCEPT !.pc = "run", !.user = verificationResult.data.uid]

\* variant of RequireRoleResume that calls next() when the user fetch fails
RequireRoleResumeFailOpen(r, userResult, requiredRole) ==
  IF ~userResult.success
    THEN [r EXCEPT !.pc = "run"]
  ELSE IF ~HasRole(userResult.data.customClaims, requiredRole)
    THEN Respond([r EXCEPT !.roleSeen = [exists |-> TRUE,
                                         role |-> userResult.data.customClaims.role,
                                         roles |-> userResult.data.customClaims.roles]],
                 403, ResponseForbidden("Role required", "INSUFFICIENT_ROLE"))
  ELSE [r EXCEPT !.pc = "run", !.rolePassed = TRUE,
                 !.roleSeen = [exists |-> TRUE,
                               role |-> userResult.data.customClaims.role,
                               roles |-> userResult.data.customClaims.roles]]

\* requireRole(requiredRole) after its await on authService.getUserByUid
RequireRoleResume(r, userResult, requiredRole) ==
  IF ~userResult.success
    THEN Respond(r, 500, ResponseError(userResult.error.code, "role verification", Null))
  ELSE IF ~HasRole(userResult.data.customClaims, requiredRole)
    THEN Respond([r EXCEPT !.roleSeen = [exists |-> TRUE,
                                         role |-> userResult.data.customClaims.role,
                                         roles |-> userResult.data.customClaims.roles]],
                 403, ResponseForbidden("Role required", "INSUFFICIENT_ROLE"))
  ELSE [r EXCEPT !.pc = "run", !.rolePassed = TRUE,
                 !.roleSeen = [exists |-> TRUE,
                               role |-> userResult.data.customClaims.role,
                               roles |-> userResult.data.customClaims.roles]]

\* createCustomToken(uid): the token auth.createCustomToken signs for the uid,
\* whoever the uid is, or the error envelope of what it threw
CreateCustomToken(uid, signed) ==
  IF uid = Null
    THEN ResponseValidation(<<"UID is required for custom token creation">>)
  ELSE IF signed
    THEN ResponseSuccess([token |-> [customToken |-> <<"customToken", uid>>, uid |-> uid,
                                     expiresIn |-> "1 hour"]],
                         "Custom token created successfully")
  ELSE ResponseError("auth/internal-error", "createCustomToken", [uid |-> uid])

\* a route handler after its await: res.status(result.success ? ok : fail).json(result)
HandlerRespond(r, result) ==
  Respond(r, IF result.success THEN RouteTable[r.route].ok ELSE RouteTable[r.route].fail,
          result)

\* ------------------------------------------------------- request pipeline
IPs == {"10.0.0.1"}
\* the users whose records change while the model runs
ClaimTargets == {"alice"}
\* uids that match firebaseUid; "mallory" has no user record
CustomTokenUids == {"alice", "mallory"}
Bodies(route) ==
  IF route = "POST /auth/verify-token"
    THEN [idToken : {<<"tokA">>, <<"bad">>}, checkRevoked : BOOLEAN]
  ELSE IF route = "POST /auth/custom-token"
    THEN [uid : CustomTokenUids]
  ELSE {NoBody}

\* A request arrives and runs up to its first await or its response.
Receive(route, header, ip, invalid, body) ==
  /\ req.pc = "idle"
  /\ LET res == RunChain(NewReq(route, header, ip, invalid, body), 1, limiters, now)
     IN  req' = res.req /\ limiters' = res.lims
  /\ UNCHANGED <<users, now, hist>>
  /\ UNCHANGED <<docVars, libVars>>

\* The client sends the answered request again, unchanged.
Retry ==
  /\ req.pc = "done"
  /\ LET new == NewReq(req.route, req.header, req.ip, req.invalid, req.body)
         res == RunChain([new EXCEPT !.retryOfDenied = DeniedRole(req)], 1, limiters, now)
     IN  req' = res.req /\ limiters' = res.lims
  /\ UNCHANGED <<users, now, hist>>
  /\ UNCHANGED <<docVars, libVars>>

\* The answered request is over.
Close ==
  /\ req.pc = "done"
  /\ req' = IdleReq
  /\ UNCHANGED <<users, limiters, now, hist>>
  /\ UNCHANGED <<docVars, libVars>>

\* The provider answers authService.verifyIdToken for the middleware.
VerifyReturn(outcome) ==
  /\ req.pc = "verify"
  /\ LET r2 == VerifyTokenResume([req EXCEPT !.verifyOutcome = outcome],
                                 VerifyIdToken(req.token, outcome))
         res == RunChain(r2, req.at + 1, limiters, now)
     IN  IF r2.pc = "run"
           THEN req' = res.req /\ limiters' = res.lims
           ELSE req' = r2 /\ UNCHANGED limiters
  /\ UNCHANGED <<users, now, hist>>
  /\ UNCHANGED <<docVars, libVars>>

\* The provider answers authService.getUserByUid for requireAdmin.
RoleReturn ==
  /\ req.pc = "role"
  /\ LET r2 == RequireRoleResume(req, GetUserByUid(users, req.user), "admin")
         res == RunChain(r2, req.at + 1, limiters, now)
     IN  IF r2.pc = "run"
           THEN req' = res.req /\ limiters' = res.lims
           ELSE req' = r2 /\ UNCHANGED limiters
  /\ UNCHANGED <<users, now, hist>>
  /\ UNCHANGED <<docVars, libVars>>

\* POST /verify-token: the handler's authService.verifyIdToken returns.
HandlerReturnVerify(outcome) ==
  /\ req.pc = "handler"
  /\ RouteTable[req.route].service = "verifyIdToken"
  /\ outcome \in VerifyOutcomes(req.body.idToken, req.body.checkRevoked)
  /\ req' = HandlerRespond([req EXCEPT !.verifyOutcome = outcome],
                           VerifyIdToken(req.body.idToken, outcome))
  /\ UNCHANGED <<users, limiters, now, hist>>
  /\ UNCHANGED <<docVars, libVars>>

\* GET /profile and GET /admin/users/:uid: authService.getUserByUid returns.
HandlerReturnGetUser(uid) ==
  /\ req.pc = "handler"
  /\ RouteTable[req.route].service = "getUserByUid"
  /\ req.route = "GET /auth/profile" => uid = req.user
  /\ req' = HandlerRespond(req, GetUserByUid(users, uid))
  /\ UNCHANGED <<users, limiters, now, hist>>
  /\ UNCHANGED <<docVars, libVars>>

\* POST /admin/users/:uid/claims: authService.setCustomUserClaims returns.
HandlerReturnSetClaims(uid, claims) ==
  /\ req.pc = "handler"
  /\ RouteTable[req.route].service = "setCustomUserClaims"
  /\ IF users[uid].exists
       THEN /\ users' = [users EXCEPT ![uid] = claims]
            /\ req' = HandlerRespond(req, ResponseSuccess([uid |-> uid], "Custom claims set successfully"))
       ELSE /\ UNCHANGED users
            /\ req' = HandlerRespond(req, ResponseError("auth/user-not-found", "setCustomUserClaims", uid))
  /\ UNCHANGED <<limiters, now, hist>>
  /\ UNCHANGED <<docVars, libVars>>

\* POST /custom-token: authService.createCustomToken returns.
HandlerReturnCustomToken(signed) ==
  /\ req.pc = "handler"
  /\ RouteTable[req.route].service = "createCustomToken"
  /\ req' = HandlerRespond(req, CreateCustomToken(req.body.uid, signed))
  /\ UNCHANGED <<users, limiters, now, hist>>
  /\ UNCHANGED <<docVars, libVars>>

\* every other handler: its service call returns a success or an error envelope
HandlerReturnOther(ok) ==
  /\ req.pc = "handler"
  /\ RouteTable[req.route].service \notin {"verifyIdToken", "getUserByUid", "setCustomUserClaims",
                                            "createCustomToken"}
  /\ req' = HandlerRespond(req,
              IF ok THEN ResponseSuccess([service |-> RouteTable[req.route].service], "ok")
              ELSE ResponseError("provider-error", RouteTable[req.route].service, Null))
  /\ UNCHANGED <<users, limiters, now, hist>>
  /\ UNCHANGED <<docVars, libVars>>

\* The user records change at the provider (console, another client).
ProviderSetClaims(uid, claims) ==
  /\ users[uid] # claims
  /\ users' = [users EXCEPT ![uid] = claims]
  /\ UNCHANGED <<req, limiters, now, hist>>
  /\ UNCHANGED <<docVars, libVars>>

\* Time passes: a whole limiter window.
WindowPasses ==
  /\ now + WindowMs <= MaxClock
  /\ now' = now + WindowMs
  /\ UNCHANGED <<req, users, limiters, hist>>
  /\ UNCHANGED <<docVars, libVars>>

Init ==
  /\ req = IdleReq
  /\ users = ("alice" :> [exists |-> TRUE, role |-> Null, roles |-> {}])
             @@ ("bob" :> [exists |-> TRUE, role |-> "admin", roles |-> {}])
  /\ limiters = [router \in {"auth", "firestore"} |-> EmptyMap]
  /\ now = 0
  /\ hist = <<>>
  /\ store = EmptyStore
  /\ calls = [s \in Slots |-> IdleCall]
  /\ nextAuto = 1
  /\ started = 0
  /\ hardDeleted = {}
  /\ lastCreate = NoCreate
  /\ san = NoSanitized
  /\ built = [builder |-> Null, envelope |-> NoResp]
  /\ fb = NoFirebase
  /\ own = NoOwnership
  /\ val = NoValidation
  /\ caught = NoCaught

Next ==
  \/ \E route \in Routes, header \in Headers, ip \in IPs :
       \E invalid \in {Null} \cup ValidatedParts(route), body \in Bodies(route) :
         Receive(route, header, ip, invalid, body)
  \/ Retry
  \/ Close
  \/ \E outcome \in VerifyOutcomes(req.token, FALSE) : VerifyReturn(outcome)
  \/ RoleReturn
  \/ \E outcome \in {"ok", "auth/id-token-expired", "auth/id-token-revoked",
                     "auth/invalid-id-token", "auth/argument-error"} :
       HandlerReturnVerify(outcome)
  \/ \E uid \in Uids : HandlerReturnGetUser(uid)
  \/ \E uid \in ClaimTargets, claims \in ClaimSets : HandlerReturnSetClaims(uid, claims)
  \/ \E signed \in BOOLEAN : HandlerReturnCustomToken(signed)
  \/ \E ok \in BOOLEAN : HandlerReturnOther(ok)
  \/ \E uid \in ClaimTargets, claims \in ClaimSets \cup {NoUser} :
       ProviderSetClaims(uid, claims)
  \/ WindowPasses

Spec == Init /\ [][Next]_vars

\* ------------------------------------------------ the limiter on its own
\* One limiter instance, as a middleware that may be mounted anywhere: req.user
\* may or may not be set when it runs.  hist records what it answered.
RateIPs == {"10.0.0.1", "10.0.0.2"}
RateUsers == {Null, "alice"}

LimiterRequest(user, ip) ==
  /\ Len(hist) < MaxHist
  /\ LET key == RateLimitKey(user, ip)
         out == RateLimit(limiters["auth"], key, now, MaxRequests, WindowMs)
     IN  /\ limiters' = [limiters EXCEPT !["auth"] = out.requests]
         /\ hist' = Append(hist, [key |-> key, t |-> now, pass |-> out.pass,
                                  retryAfter |-> out.retryAfter])
  /\ UNCHANGED <<req, users, now>>
  /\ UNCHANGED <<docVars, libVars>>

RateTick ==
  /\ now + TickMs <= MaxClock
  /\ now' = now + TickMs
  /\ UNCHANGED <<req, users, limiters, hist>>
  /\ UNCHANGED <<docVars, libVars>>

NextRate ==
  \/ \E user \in RateUsers, ip \in RateIPs : LimiterRequest(user, ip)
  \/ RateTick

SpecRate == Init /\ [][NextRate]_vars

\* -------------------------------------------------------- Firestore service
\* One collection; field values are strings, a server timestamp is the token
\* the provider writes for FieldValue.serverTimestamp().
Collection == "items"
ServerStamp == "serverTimestamp"

\* the ids the provider generates for add() and doc()
AutoIds == <<"d1", "d2", "d3", "d4", "d5", "d6">>
\* ids a client can name; "a/b" is not a single path segment, so
\* collection(c).doc("a/b") throws
ClientIds == {"x", "a/b"}
ValidDocPath(id) == id # "a/b"

\* { ...a, ...b }
Spread(a, b) ==
  [k \in DOMAIN a \cup DOMAIN b |-> IF k \in DOMAIN b THEN b[k] ELSE a[k]]

Put(st, id, doc) == [k \in DOMAIN st \cup {id} |-> IF k = id THEN doc ELSE st[k]]
Remove(st, id) == [k \in DOMAIN st \ {id} |-> st[k]]

\* docData of createDocument
CreateDocData(data, userId) ==
  Spread(Spread(data, [createdAt |-> ServerStamp, updatedAt |-> ServerStamp]),
         IF userId # Null THEN [createdBy |-> userId] ELSE EmptyDoc)

\* createDocument(collection, data, docId, userId); autoId is the id add()
\* generates.  written is the id of the document that was set, if any.
CreateDocument(st, data, docId, userId, autoId) ==
  LET docData == CreateDocData(data, userId)
      refId == IF docId # Null THEN docId ELSE autoId
  IN  IF ~ValidDocPath(refId)
        THEN [store |-> st, written |-> Null,
              result |-> ResponseError("invalid-argument", "createDocument",
                                       [collection |-> Collection, docId |-> docId])]
        ELSE [store |-> Put(st, refId, docData), written |-> refId,
              result |-> ResponseSuccess(Spread([id |-> refId], docData),
                                         "Document created successfully")]

\* getDocument(collection, docId)
GetDocument(st, docId) ==
  IF ~ValidDocPath(docId)
    THEN ResponseError("invalid-argument", "getDocument",
                       [collection |-> Collection, docId |-> docId])
  ELSE IF docId \notin DOMAIN st
    THEN ResponseNotFound("Document", <<Collection, docId>>)
  ELSE ResponseSuccess(Spread([id |-> docId], st[docId]), "Document retrieved successfully")

\* variant of DeleteDocumentExists that takes every document to exist
DeleteDocumentExistsAlways(st, docId) == TRUE

\* deleteDocument: doc.exists of the document it read first
DeleteDocumentExists(st, docId) == docId \in DOMAIN st

\* variant of DeleteDocumentWrite whose soft delete removes the record too
DeleteDocumentWriteRemoves(st, docId, hardDelete, userId) ==
  IF hardDelete \/ docId \in DOMAIN st
    THEN [ok |-> TRUE, store |-> Remove(st, docId)]
    ELSE [ok |-> FALSE, store |-> st]

\* deleteDocument: its second remote call, docRef.delete() or docRef.update()
\* of the soft-delete fields; update() of a missing document throws
DeleteDocumentWrite(st, docId, hardDelete, userId) ==
  IF hardDelete
    THEN [ok |-> TRUE, store |-> Remove(st, docId)]
  ELSE IF docId \notin DOMAIN st
    THEN [ok |-> FALSE, store |-> st]
  ELSE [ok |-> TRUE,
        store |-> Put(st, docId,
                      Spread(Spread(st[docId], [deleted |-> "true", deletedAt |-> ServerStamp]),
                             IF userId # Null THEN [deletedBy |-> userId] ELSE EmptyDoc))]

\* the operations.forEach of batchOperations from operation `index` on: each
\* operation queues one write on the batch and pushes a success result, or
\* throws while its reference is built and pushes a failure result (catch
\* opError); auto is the index of the next generated id.
RECURSIVE QueueOperations(_, _, _)
QueueOperations(operations, index, auto) ==
  IF index > Len(operations)
    THEN [results |-> <<>>, writes |-> <<>>]
    ELSE
      LET operation == operations[index]
          create == operation.type = "create"
          id == IF create THEN AutoIds[auto] ELSE operation.id
          rest == QueueOperations(operations, index + 1, IF create THEN auto + 1 ELSE auto)
          writeData ==
            CASE operation.type = "create" ->
                   Spread(operation.data, [createdAt |-> ServerStamp, updatedAt |-> ServerStamp])
              [] operation.type = "update" ->
                   Spread(operation.data, [updatedAt |-> ServerStamp])
              [] OTHER -> EmptyDoc
      IN  IF ~ValidDocPath(id)
            THEN [results |-> <<[success |-> FALSE, type |-> operation.type, id |-> id,
                                 index |-> index]>> \o rest.results,
                  writes |-> rest.writes]
            ELSE [results |-> <<[success |-> TRUE, type |-> operation.type, id |-> id,
                                 index |-> index]>> \o rest.results,
                  writes |-> <<[type |-> operation.type, id |-> id, data |-> writeData,
                                index |-> index]>> \o rest.writes]

\* the provider applies the writes of a batch in order; update() of a document
\* that does not exist fails the batch
RECURSIVE ApplyWrites(_, _)
ApplyWrites(st, writes) ==
  IF writes = <<>> THEN [ok |-> TRUE, store |-> st]
  ELSE LET w == Head(writes)
       IN  IF w.type = "update" /\ w.id \notin DOMAIN st
             THEN [ok |-> FALSE, store |-> st]
           ELSE ApplyWrites(CASE w.type = "create" -> Put(st, w.id, w.data)
                              [] w.type = "update" -> Put(st, w.id, Spread(st[w.id], w.data))
                              [] OTHER -> Remove(st, w.id),
                            Tail(writes))

\* batch.commit(): all the queued writes or none
Commit(st, writes) ==
  IF ApplyWrites(st, writes).ok
    THEN [ok |-> TRUE, store |-> ApplyWrites(st, writes).store]
    ELSE [ok |-> FALSE, store |-> st]

\* batchOperations(operations); applied are the indexes of the operations whose
\* write is in the store when it returns
BatchOperations(st, operations, auto) ==
  LET queue == QueueOperations(operations, 1, auto)
      commit == Commit(st, queue.writes)
  IN  IF commit.ok
        THEN [store |-> commit.store, committed |-> TRUE,
              applied |-> {queue.writes[i].index : i \in 1..Len(queue.writes)},
              result |-> ResponseBatch(queue.results, "batch operations")]
        ELSE [store |-> st, committed |-> FALSE, applied |-> {},
              result |-> ResponseError("not-found", "batchOperations",
                                       [operationsCount |-> Len(operations)])]

\* ------------------------------------------------------ Firestore requests
\* The Firestore routes from the point where the chain has reached the handler
\* (for /batch: from the body validator on).  Two requests can be in flight.
Datas == { [name |-> "x"], [id |-> "x"], [createdAt |-> "old"] }
UserIds == {Null, "alice"}

\* res.status(result.success ? ok : fail).json(result) of a Firestore handler
Answer(c, route, result) ==
  [c EXCEPT !.pc = "done", !.result = result,
            !.status = IF result.success THEN RouteTable[route].ok
                       ELSE RouteTable[route].fail]

\* a write to document id ends the round trip of the latest create
Written(ids) ==
  IF lastCreate.valid /\ lastCreate.id \in ids THEN NoCreate ELSE lastCreate

\* POST /collections/:collection/documents: createDocument has one remote call
CreateCall(s, data, docId, userId) ==
  /\ calls[s].pc = "idle"
  /\ started < MaxCalls
  /\ nextAuto <= Len(AutoIds)
  /\ LET out == CreateDocument(store, data, docId, userId, AutoIds[nextAuto])
         c == [IdleCall EXCEPT !.op = "create", !.id = docId, !.userId = userId,
                               !.sent = data]
     IN  /\ store' = out.store
         /\ calls' = [calls EXCEPT ![s] =
                        Answer(c, "POST /firestore/collections/:collection/documents",
                               out.result)]
         /\ hardDeleted' = hardDeleted \ {out.written}
         /\ lastCreate' = IF out.result.success
                            THEN [valid |-> TRUE, data |-> data, id |-> out.result.data.id]
                            ELSE lastCreate
  /\ nextAuto' = IF docId = Null THEN nextAuto + 1 ELSE nextAuto
  /\ started' = started + 1
  /\ UNCHANGED <<pipeVars, libVars>>

\* GET /collections/:collection/documents/:id: getDocument has one remote call
GetCall(s, docId) ==
  /\ calls[s].pc = "idle"
  /\ started < MaxCalls
  /\ LET roundTrip == lastCreate.valid /\ docId = lastCreate.id
         c == [IdleCall EXCEPT !.op = "get", !.id = docId, !.roundTrip = roundTrip,
                               !.sent = IF roundTrip THEN lastCreate.data ELSE EmptyDoc]
     IN  calls' = [calls EXCEPT ![s] =
                     Answer(c, "GET /firestore/collections/:collection/documents/:id",
                            GetDocument(store, docId))]
  /\ started' = started + 1
  /\ UNCHANGED <<store, nextAuto, hardDeleted, lastCreate>>
  /\ UNCHANGED <<pipeVars, libVars>>

\* DELETE /collections/:collection/documents/:id, up to the second remote
\* call of deleteDocument: the document is read, and a missing one is answered
DeleteStart(s, docId, hardDelete, userId) ==
  /\ calls[s].pc = "idle"
  /\ started < MaxCalls
  /\ LET route == "DELETE /firestore/collections/:collection/documents/:id"
         c == [IdleCall EXCEPT !.op = "delete", !.id = docId, !.hardDelete = hardDelete,
                               !.userId = userId,
                               !.afterHardDelete = hardDelete /\ docId \in hardDeleted]
     IN  calls' = [calls EXCEPT ![s] =
           IF ~ValidDocPath(docId)
             THEN Answer(c, route, ResponseError("invalid-argument", "deleteDocument",
                                                 [collection |-> Collection, docId |-> docId]))
           ELSE IF ~DeleteDocumentExists(store, docId)
             THEN Answer(c, route, ResponseNotFound("Document", <<Collection, docId>>))
           ELSE [c EXCEPT !.pc = "deleting"]]
  /\ started' = started + 1
  /\ UNCHANGED <<store, nextAuto, hardDeleted, lastCreate>>
  /\ UNCHANGED <<pipeVars, libVars>>

\* deleteDocument: the delete() or update() returns and the handler answers
DeleteFinish(s) ==
  /\ calls[s].pc = "deleting"
  /\ LET c == calls[s]
         out == DeleteDocumentWrite(store, c.id, c.hardDelete, c.userId)
     IN  /\ store' = out.store
         /\ calls' = [calls EXCEPT ![s] =
              Answer([c EXCEPT !.deleteIssued = c.hardDelete],
                     "DELETE /firestore/collections/:collection/documents/:id",
                     IF out.ok
                       THEN ResponseSuccess([id |-> c.id, deleted |-> "true"],
                                            "Document deleted successfully")
                       ELSE ResponseError("not-found", "deleteDocument",
                                          [collection |-> Collection, docId |-> c.id]))]
         /\ hardDeleted' = IF c.hardDelete THEN hardDeleted \cup {c.id} ELSE hardDeleted
         /\ lastCreate' = IF out.ok THEN Written({c.id}) ELSE lastCreate
  /\ UNCHANGED <<nextAuto, started>>
  /\ UNCHANGED <<pipeVars, libVars>>

\* the response has been sent: the slot is free again
Finish(s) ==
  /\ calls[s].pc = "done"
  /\ calls' = [calls EXCEPT ![s] = IdleCall]
  /\ UNCHANGED <<store, nextAuto, started, hardDeleted, lastCreate>>
  /\ UNCHANGED <<pipeVars, libVars>>

NextDoc ==
  \/ \E s \in Slots, data \in Datas, docId \in {Null, "x"}, userId \in UserIds :
       CreateCall(s, data, docId, userId)
  \/ \E s \in Slots, docId \in (ClientIds \cup {lastCreate.id}) \ {Null} : GetCall(s, docId)
  \/ \E s \in Slots, docId \in ClientIds, hardDelete \in BOOLEAN :
       DeleteStart(s, docId, hardDelete, "alice")
  \/ \E s \in Slots : DeleteFinish(s)
  \/ \E s \in Slots : Finish(s)

SpecDoc == Init /\ [][NextDoc]_vars

\* ------------------------------------------------------------ POST /batch
\* the operations a batch is made of
BatchOps ==
  { [type |-> "create", id |-> Null, data |-> [name |-> "x"]],
    [type |-> "update", id |-> "x", data |-> [name |-> "y"]],
    [type |-> "update", id |-> "a/b", data |-> [name |-> "y"]],
    [type |-> "delete", id |-> "x", data |-> EmptyDoc] }
Batches == UNION {[1..n -> BatchOps] : n \in 0..(MaxBatchOps + 1)}

Creates(operations) ==
  Cardinality({i \in 1..Len(operations) : operations[i].type = "create"})

\* the body schema of /batch: operations is an array of min(1).max(500) items
ValidBatchBody(operations) ==
  Len(operations) >= 1 /\ Len(operations) <= MaxBatchOps

\* POST /batch: the body validator, then the handler; batchOperations has one
\* remote call, the commit
BatchCall(s, operations) ==
  /\ calls[s].pc = "idle"
  /\ started < MaxCalls
  /\ nextAuto + Creates(operations) <= Len(AutoIds) + 1
  /\ LET c == [IdleCall EXCEPT !.op = "batch", !.count = Len(operations),
                               !.before = store]
         out == BatchOperations(store, operations, nextAuto)
     IN  IF ~ValidBatchBody(operations)
           THEN /\ calls' = [calls EXCEPT ![s] =
                               [c EXCEPT !.pc = "done", !.status = 400,
                                         !.result = ResponseValidation(<<"operations">>)]]
                /\ UNCHANGED <<store, nextAuto, lastCreate>>
           ELSE /\ store' = out.store
                /\ calls' = [calls EXCEPT ![s] =
                               Answer([c EXCEPT !.committed = out.committed,
                                                !.applied = out.applied],
                                      "POST /firestore/batch", out.result)]
                /\ nextAuto' = nextAuto + Creates(operations)
                /\ lastCreate' =
                     Written({operations[i].id : i \in out.applied}
                             \cup {AutoIds[i] : i \in nextAuto..(nextAuto + Creates(operations) - 1)})
  /\ started' = started + 1
  /\ UNCHANGED hardDeleted
  /\ UNCHANGED <<pipeVars, libVars>>

NextBatch ==
  \/ \E data \in Datas, userId \in UserIds : CreateCall(1, data, "x", userId)
  \/ \E operations \in Batches : BatchCall(1, operations)
  \/ Finish(1)

SpecBatch == Init /\ [][NextBatch]_vars

\* ---------------------------------------------------------------- sanitizer
\* A string is a sequence of pieces of text.  The pieces are chosen so that
\* 'javascript:' occurs in a string exactly where "java" (in either case) is
\* followed by "script:", 'data:' exactly where "da" is followed by "ta:", and
\* '<script>' exactly where "<", "script", ">" follow each other.
SanPieces == {"<", ">", "script", "java", "JAVA", "script:", "da", "ta:", " "}
Texts == UNION {[1..n -> SanPieces] : n \in 0..MaxText}
\* object keys, character by character
SanKeys == { <<"n">>, <<"a", ".", "b">>, <<"$", "[", "0", "]">> }

\* value.replace(/[<>]/g, '')
StripAngles(value) == SelectSeq(value, LAMBDA t : t \notin {"<", ">"})

\* value.replace(/<first><second>/g, ''): one pass from left to right; the
\* text that joins up behind a removed match is not examined again
RECURSIVE RemovePair(_, _, _)
RemovePair(value, first, second) ==
  IF Len(value) < 2 THEN value
  ELSE IF value[1] \in first /\ value[2] = second
    THEN RemovePair(SubSeq(value, 3, Len(value)), first, second)
  ELSE <<value[1]>> \o RemovePair(Tail(value), first, second)

\* value.trim()
RECURSIVE Trim(_)
Trim(value) ==
  IF value = <<>> THEN value
  ELSE IF Head(value) = " " THEN Trim(Tail(value))
  ELSE IF value[Len(value)] = " " THEN Trim(SubSeq(value, 1, Len(value) - 1))
  ELSE value

\* sanitizeValue of a string
SanitizeString(value) ==
  Trim(RemovePair(RemovePair(StripAngles(value), {"java", "JAVA"}, "script:"),
                  {"da"}, "ta:"))

\* key.replace(/[.#$[\]]/g, '_')
SanitizeKey(key) ==
  [i \in 1..Len(key) |-> IF key[i] \in {".", "#", "$", "[", "]"} THEN "_" ELSE key[i]]

\* sanitizeValue of an object with one entry
SanitizeObject(key, value) ==
  [k \in {SanitizeKey(key)} |-> SanitizeString(value)]

\* the literal substrings the sanitizer is there to remove
HasScriptTag(value) ==
  \E i \in 1..(Len(value) - 2) :
    value[i] = "<" /\ value[i + 1] = "script" /\ value[i + 2] = ">"
HasJavascript(value) ==
  \E i \in 1..(Len(value) - 1) : value[i] = "java" /\ value[i + 1] = "script:"

\* sanitizeFirebaseData runs on a request whose body is { key: value }
Sanitize(key, value) ==
  /\ ~san.ran
  /\ san' = [ran |-> TRUE, key |-> key, value |-> value,
             body |-> SanitizeObject(key, value)]
  /\ UNCHANGED <<pipeVars, docVars, built, fb, own, val, caught>>

\* the request has been handled; the next one arrives
SanitizeNext ==
  /\ san.ran
  /\ san' = NoSanitized
  /\ UNCHANGED <<pipeVars, docVars, built, fb, own, val, caught>>

NextSanitize ==
  \/ ~san.ran /\ \E key \in SanKeys, value \in Texts : Sanitize(key, value)
  \/ SanitizeNext

SpecSanitize == Init /\ [][NextSanitize]_vars

\* -------------------------------------------------------- response builders
\* The builders of FirebaseResponse, each applied to arguments of the kinds its
\* callers pass.
EnvCodes == {Null, "not-found", "auth/argument-error", "permission-denied", "unavailable"}
EnvOperations == {"createDocument", "verifyIdToken", "rate limiting", "role verification"}
EnvContexts == {[collection |-> Collection], [operationsCount |-> 1], [uid |-> "alice"]}
EnvMessages == {"Authentication required", "Access forbidden", "Operation successful"}
EnvCodesGiven == {"UNAUTHORIZED", "MISSING_TOKEN", "FORBIDDEN", "INSUFFICIENT_ROLE"}
EnvResults == UNION {[1..n -> [success : BOOLEAN]] : n \in 1..MaxBatchOps}

Build(builder, envelope) ==
  /\ built' = [builder |-> builder, envelope |-> envelope]
  /\ UNCHANGED <<pipeVars, docVars, san, fb, own, val, caught>>

BuildSuccess(data, message) == Build("success", ResponseSuccess(data, message))
BuildError(code, operation, context) == Build("error", ResponseError(code, operation, context))
BuildValidation(errors) == Build("validation", ResponseValidation(errors))
BuildUnauthorized(message, code) == Build("unauthorized", ResponseUnauthorized(message, code))
BuildForbidden(message, code) == Build("forbidden", ResponseForbidden(message, code))
BuildNotFound(resource, identifier) == Build("notFound", ResponseNotFound(resource, identifier))
BuildPaginated(data, pagination) == Build("paginated", ResponsePaginated(data, pagination))
BuildBatch(results) == Build("batch", ResponseBatch(results, "batch operation"))

NextEnvelope ==
  \/ \E data \in EnvContexts, message \in EnvMessages : BuildSuccess(data, message)
  \/ \E code \in EnvCodes, operation \in EnvOperations, context \in EnvContexts :
       BuildError(code, operation, context)
  \/ \E errors \in {<<"body">>, <<"params">>, <<"body", "query">>} : BuildValidation(errors)
  \/ \E message \in EnvMessages, code \in EnvCodesGiven : BuildUnauthorized(message, code)
  \/ \E message \in EnvMessages, code \in EnvCodesGiven : BuildForbidden(message, code)
  \/ \E resource \in {"Document", "User"}, identifier \in {Null, "x"} :
       BuildNotFound(resource, identifier)
  \/ \E data \in {<<>>, <<"x">>}, pagination \in {[page |-> 1, limit |-> 20]} :
       BuildPaginated(data, pagination)
  \/ \E results \in EnvResults : BuildBatch(results)

SpecEnvelope == Init /\ [][NextEnvelope]_vars

\* ---------------------------------------------- provider handle and services
\* The environments the process is started in (process.env is read, never
\* written, by the program).
Envs ==
  { Env(FALSE, FALSE, FALSE, FALSE, FALSE, FALSE),
    Env(TRUE, FALSE, FALSE, FALSE, FALSE, FALSE),
    Env(TRUE, TRUE, TRUE, FALSE, FALSE, TRUE),
    Env(TRUE, TRUE, TRUE, FALSE, FALSE, FALSE),
    Env(TRUE, FALSE, FALSE, TRUE, FALSE, FALSE),
    Env(FALSE, TRUE, TRUE, FALSE, FALSE, TRUE),
    Env(TRUE, FALSE, FALSE, FALSE, TRUE, FALSE) }

\* What lies outside the process: the file at serviceAccountPath (absent, one
\* admin.credential.cert rejects, one it accepts) and whether
\* admin.credential.applicationDefault() yields a credential.
FileStates == [account : {"absent", "bad", "good"}, adc : BOOLEAN]

\* isConfigured()
IsConfigured(env) ==
  env.projectId /\ (env.privateKey \/ env.accountPath \/ env.gac)

\* the credential initializeFirebaseApp obtains: the source is chosen by what
\* is present, and a source that throws ends the attempt ("throw")
Credential(env, files) ==
  IF files.account # "absent"
    THEN IF files.account = "good" THEN "file" ELSE "throw"
  ELSE IF env.privateKey /\ env.clientEmail
    THEN IF env.keyValid THEN "inline" ELSE "throw"
  ELSE IF files.adc THEN "default" ELSE "throw"

\* variant of InitializeFirebaseApp without the early return on a set handle
InitializeFirebaseAppAgain(f) ==
  IF Credential(f.env, f.files) = "throw"
    THEN [fb |-> [f EXCEPT !.failed = TRUE], threw |-> TRUE, built |-> FALSE]
  ELSE [fb |-> [f EXCEPT !.firebaseApp = f.constructed + 1,
                         !.constructed = @ + 1,
                         !.source = Credential(f.env, f.files)],
        threw |-> FALSE, built |-> TRUE]

\* initializeFirebaseApp(): the state of the module after it, whether it threw,
\* and whether it called admin.initializeApp
InitializeFirebaseApp(f) ==
  IF f.firebaseApp # 0 THEN [fb |-> f, threw |-> FALSE, built |-> FALSE]
  ELSE IF Credential(f.env, f.files) = "throw"
    THEN [fb |-> [f EXCEPT !.failed = TRUE], threw |-> TRUE, built |-> FALSE]
  ELSE [fb |-> [f EXCEPT !.firebaseApp = f.constructed + 1,
                         !.constructed = @ + 1,
                         !.source = Credential(f.env, f.files)],
        threw |-> FALSE, built |-> TRUE]

\* getFirebaseApp(); getAuth, getFirestore, getStorage and getRealtimeDatabase
\* call it and wrap the handle it returns
GetFirebaseApp(f) ==
  IF f.firebaseApp = 0 THEN InitializeFirebaseApp(f)
  ELSE [fb |-> f, threw |-> FALSE, built |-> FALSE]

ConfigFunctions ==
  {"initializeFirebaseApp", "getFirebaseApp", "getAuth", "getFirestore",
   "getStorage", "getRealtimeDatabase"}

\* initialize() of a service: memoized once it succeeded, rethrows otherwise
ServiceInitialize(f, service) ==
  IF f.services[service] THEN [fb |-> f, threw |-> FALSE, built |-> FALSE]
  ELSE LET g == GetFirebaseApp(f)
       IN  IF g.threw THEN g
           ELSE [g EXCEPT !.fb.services[service] = TRUE]

\* FirebaseAdmin.initialize() of the index module; its rejection is caught by
\* the caller at module load (a storage bucket is taken to be configured, so
\* the services' own initialize() succeed once the handle exists)
FirebaseAdminInitialize(f) ==
  IF f.adminInitialized THEN f
  ELSE LET a == InitializeFirebaseApp(f)
       IN  IF a.threw THEN a.fb
           ELSE [a.fb EXCEPT !.services = [s \in Services |-> TRUE],
                             !.adminInitialized = TRUE]

\* Service methods by the way they are guarded: "caught" methods run
\* initialize() and the provider call inside try/catch; "bare" methods call
\* initialize() outside any try; "stream" is uploadBuffer, whose provider call
\* settles a promise from stream events.
MethodTable ==
  [m \in {} |-> <<>>]
  @@ ("verifyIdToken" :> [service |-> "auth", guard |-> "caught"])
  @@ ("createDocument" :> [service |-> "firestore", guard |-> "caught"])
  @@ ("uploadFile" :> [service |-> "storage", guard |-> "caught"])
  @@ ("uploadBuffer" :> [service |-> "storage", guard |-> "stream"])
  @@ ("set" :> [service |-> "realtimeDb", guard |-> "caught"])
  @@ ("ref" :> [service |-> "realtimeDb", guard |-> "bare"])

\* variant of ServiceMethod that goes on to the provider call after a failed
\* initialize()
ServiceMethodIgnoresInit(f, method, providerOk) ==
  LET i == ServiceInitialize(f, MethodTable[method].service)
      guard == MethodTable[method].guard
      call == [IdleLast EXCEPT !.kind = "service", !.op = method,
                               !.appBefore = f.firebaseApp, !.built = i.built,
                               !.handle = i.fb.firebaseApp, !.initError = i.threw]
  IN  [i.fb EXCEPT !.last =
         IF guard = "bare" THEN [call EXCEPT !.outcome = "returned"]
         ELSE IF providerOk
           THEN [call EXCEPT !.outcome = "envelope", !.success = TRUE, !.remote = TRUE]
         ELSE IF guard = "stream"
           THEN [call EXCEPT !.outcome = "rejected", !.remote = TRUE]
         ELSE [call EXCEPT !.outcome = "envelope", !.remote = TRUE]]

\* a service method: this.initialize(), then the provider call.  outcome is how
\* the call completes for its caller: an envelope, a returned value, a throw
\* or a rejected promise.
ServiceMethod(f, method, providerOk) ==
  LET i == ServiceInitialize(f, MethodTable[method].service)
      guard == MethodTable[method].guard
      call == [IdleLast EXCEPT !.kind = "service", !.op = method,
                               !.appBefore = f.firebaseApp, !.built = i.built,
                               !.handle = i.fb.firebaseApp, !.initError = i.threw]
  IN  [i.fb EXCEPT !.last =
         IF i.threw
           THEN IF guard = "bare" THEN [call EXCEPT !.outcome = "threw"]
                ELSE [call EXCEPT !.outcome = "envelope"]
         ELSE IF guard = "bare" THEN [call EXCEPT !.outcome = "returned"]
         ELSE IF providerOk
           THEN [call EXCEPT !.outcome = "envelope", !.success = TRUE, !.remote = TRUE]
         ELSE IF guard = "stream"
           THEN [call EXCEPT !.outcome = "rejected", !.remote = TRUE]
         ELSE [call EXCEPT !.outcome = "envelope", !.remote = TRUE]]

\* The application's middleware and routes in the order they are registered:
\* cors() ends every OPTIONS request itself, express.json() hands a body it
\* cannot parse to the error handler, then the routes.
HttpMethods == {"GET", "POST", "OPTIONS"}
HttpPaths ==
  {"/api", "/api/firebase/info", "/api/firebase/auth/profile",
   "/api/firebase/firestore/batch", "/api/firebase/storage/files", "/other"}
UnderFirebase(path) == path \notin {"/api", "/other"}
UnderRouter(path) ==
  path \in {"/api/firebase/auth/profile", "/api/firebase/firestore/batch"}

\* how the application answers a request; bodyOk: the body, if any, parses
AppAnswer(f, method, path, bodyOk) ==
  LET r == [IdleLast EXCEPT !.kind = "http", !.method = method, !.path = path]
  IN  IF method = "OPTIONS" THEN [r EXCEPT !.status = 204, !.outcome = "preflight"]
      ELSE IF ~bodyOk
        THEN [r EXCEPT !.status = 500, !.outcome = "error handler",
                       !.body = [success |-> FALSE, message |-> "Internal server error"]]
      ELSE IF method = "GET" /\ path = "/api"
        THEN [r EXCEPT !.status = 200, !.outcome = "docs",
                       !.body = [name |-> "Firebase Backend API"]]
      ELSE IF method = "GET" /\ path = "/api/firebase/info"
        THEN [r EXCEPT !.status = 200, !.outcome = "info",
                       !.configured = IsConfigured(f.env),
                       !.body = [service |-> "Firebase Admin SDK",
                                 configured |-> IsConfigured(f.env),
                                 initialized |-> f.adminInitialized]]
      ELSE IF UnderFirebase(path) /\ f.mounted = "unconfigured"
        THEN [r EXCEPT !.status = 503, !.outcome = "unconfigured",
                       !.body = [success |-> FALSE, message |-> "Firebase not configured"]]
      ELSE IF UnderRouter(path) /\ f.mounted = "routes"
        THEN [r EXCEPT !.outcome = "router", !.routed = TRUE]
      ELSE [r EXCEPT !.status = 404, !.outcome = "not found",
                     !.body = [success |-> FALSE, message |-> "Route not found"]]

\* The modules are loaded: the index module initializes the SDK when
\* configured, and the application mounts the routers or the 503 catch-all.
Boot(env, files) ==
  /\ fb.pc = "boot"
  /\ fb' = LET f == [fb EXCEPT !.pc = "up", !.env = env, !.files = files,
                               !.mounted = IF IsConfigured(env) THEN "routes"
                                           ELSE "unconfigured"]
           IN  IF IsConfigured(env) THEN FirebaseAdminInitialize(f) ELSE f
  /\ UNCHANGED <<pipeVars, docVars, san, built, own, val, caught>>

\* One of the configuration module's functions is called.
ConfigCall(fn) ==
  /\ fb.pc = "up"
  /\ LET a == IF fn = "initializeFirebaseApp" THEN InitializeFirebaseApp(fb)
              ELSE GetFirebaseApp(fb)
     IN  fb' = [a.fb EXCEPT !.last =
                  [IdleLast EXCEPT !.kind = "config", !.op = fn,
                                   !.outcome = IF a.threw THEN "threw" ELSE "returned",
                                   !.initError = a.threw, !.built = a.built,
                                   !.appBefore = fb.firebaseApp,
                                   !.handle = a.fb.firebaseApp]]
  /\ UNCHANGED <<pipeVars, docVars, san, built, own, val, caught>>

\* A service method is called and completes.
ServiceCall(method, providerOk) ==
  /\ fb.pc = "up"
  /\ fb' = ServiceMethod(fb, method, providerOk)
  /\ UNCHANGED <<pipeVars, docVars, san, built, own, val, caught>>

\* A request arrives at the application and is answered or routed.
AppRequest(method, path, bodyOk) ==
  /\ fb.pc = "up"
  /\ fb' = [fb EXCEPT !.last = AppAnswer(fb, method, path, bodyOk)]
  /\ UNCHANGED <<pipeVars, docVars, san, built, own, val, caught>>

\* The credential file or the ambient credentials change outside the process.
FilesChange(files) ==
  /\ fb.pc = "up"
  /\ files # fb.files
  /\ fb' = [fb EXCEPT !.files = files, !.last = IdleLast]
  /\ UNCHANGED <<pipeVars, docVars, san, built, own, val, caught>>

\* the configuration module and the services, called as a library
NextAdmin ==
  \/ \E env \in Envs, files \in FileStates : Boot(env, files)
  \/ \E fn \in ConfigFunctions : ConfigCall(fn)
  \/ \E method \in DOMAIN MethodTable, providerOk \in BOOLEAN :
       ServiceCall(method, providerOk)
  \/ \E files \in FileStates : FilesChange(files)

SpecAdmin == Init /\ [][NextAdmin]_vars

\* the application answering requests
NextApp ==
  \/ \E env \in Envs, files \in FileStates : Boot(env, files)
  \/ \E method \in HttpMethods, path \in HttpPaths, bodyOk \in BOOLEAN :
       AppRequest(method, path, bodyOk)

SpecApp == Init /\ [][NextApp]_vars

\* --------------------------------------------------------- requireOwnership
\* The values a path parameter or a body field can hold: Null when it is not
\* there, "" for an empty one.
OwnerValues == {Null, "", "alice", "bob", "x"}
ParamNames == {"id", "uid"}

\* !value for the values above
Falsy(value) == value \in {Null, ""}

\* variant of RequireOwnership that reads the body field before the parameter
RequireOwnershipBodyFirst(user, param, field) ==
  IF user = Null
    THEN [next |-> FALSE, status |-> 401,
          body |-> ResponseUnauthorized("Authentication required for ownership check",
                                        "UNAUTHORIZED")]
  ELSE LET resourceId == IF ~Falsy(field) THEN field ELSE param
       IN  IF Falsy(resourceId)
             THEN [next |-> FALSE, status |-> 400,
                   body |-> ResponseError(Null, "ownership verification", Null)]
           ELSE IF resourceId # user
             THEN [next |-> FALSE, status |-> 403,
                   body |-> ResponseForbidden("You can only access your own resources",
                                              "OWNERSHIP_REQUIRED")]
           ELSE [next |-> TRUE, status |-> 0, body |-> NoResp]

\* requireOwnership(ownershipField, paramName) on a request: user is req.user's
\* uid (Null: no req.user), param is req.params[paramName], field is
\* req.body[ownershipField]
RequireOwnership(user, param, field) ==
  IF user = Null
    THEN [next |-> FALSE, status |-> 401,
          body |-> ResponseUnauthorized("Authentication required for ownership check",
                                        "UNAUTHORIZED")]
  ELSE LET resourceId == IF ~Falsy(param) THEN param ELSE field
       IN  IF Falsy(resourceId)
             THEN [next |-> FALSE, status |-> 400,
                   body |-> ResponseError(Null, "ownership verification", Null)]
           ELSE IF resourceId # user
             THEN [next |-> FALSE, status |-> 403,
                   body |-> ResponseForbidden("You can only access your own resources",
                                              "OWNERSHIP_REQUIRED")]
           ELSE [next |-> TRUE, status |-> 0, body |-> NoResp]

\* A request reaches requireOwnership('userId', paramName).
OwnershipRequest(user, paramName, params, field) ==
  /\ own' = [ran |-> TRUE, user |-> user, paramName |-> paramName, params |-> params,
             body |-> [userId |-> field],
             out |-> RequireOwnership(user, params[paramName], field)]
  /\ UNCHANGED <<pipeVars, docVars, san, built, fb, val, caught>>

NextOwnership ==
  \E user \in Uids \cup {Null}, paramName \in ParamNames,
     params \in [ParamNames -> OwnerValues \ {""}], field \in OwnerValues :
    OwnershipRequest(user, paramName, params, field)

SpecOwnership == Init /\ [][NextOwnership]_vars

\* --------------------------------------------------------- validateFirebase
\* Two of the schemas validateFirebase is applied with, by what Joi does with
\* them under { abortEarly: false, allowUnknown: false, stripUnknown: true,
\* convert: true }.  order lists the schema's keys as declared.
ValidateSchemas ==
  [m \in {} |-> <<>>]
  @@ ("validateUserCreation" :>
        [source |-> "body", order |-> <<"email", "password", "emailVerified">>,
         required |-> {"email"}, defaults |-> ("emailVerified" :> "false")])
  @@ ("validateFirebaseParams" :>
        [source |-> "params", order |-> <<"collection", "uid">>,
         required |-> {}, defaults |-> [f \in {} |-> ""]])

\* a key no schema declares
UnknownKey == "role"

\* the values a request can carry under a key; '...' marks a JSON string
\* holding a boolean's text
FieldValues(field) ==
  CASE field = "email" -> {"a@x.com", "A@X.COM", "nope"}
    [] field = "password" -> {"secret1", "abc"}
    [] field = "emailVerified" -> {"true", "'true'", "maybe"}
    [] field = "collection" -> {"posts", "a.b"}
    [] field = "uid" -> {"alice", "a-b", "129 characters", "129 characters with -"}
    [] OTHER -> {"admin"}

\* the rules of the key's schema the value violates, in the rules' order
FieldViolations(field, value) ==
  CASE field = "email" /\ value = "nope" -> <<"string.email">>
    [] field = "password" /\ value = "abc" -> <<"string.min">>
    [] field = "emailVerified" /\ value = "maybe" -> <<"boolean.base">>
    [] field = "collection" /\ value = "a.b" -> <<"string.pattern.base">>
    [] field = "uid" /\ value = "a-b" -> <<"string.pattern.base">>
    [] field = "uid" /\ value = "129 characters" -> <<"string.max">>
    [] field = "uid" /\ value = "129 characters with -" ->
         <<"string.max", "string.pattern.base">>
    [] OTHER -> <<>>

\* convert: true -- lowercase() on the email, a boolean from its text
FieldConvert(field, value) ==
  CASE field = "email" /\ value = "A@X.COM" -> "a@x.com"
    [] field = "emailVerified" /\ value = "'true'" -> "true"
    [] OTHER -> value

\* the parts a request can carry for a schema
PartsOf(name) ==
  LET keys == {ValidateSchemas[name].order[k] : k \in DOMAIN ValidateSchemas[name].order}
                \cup {UnknownKey}
      values == UNION {FieldValues(f) : f \in keys}
  IN  UNION { {d \in [D -> values] : \A f \in D : d[f] \in FieldValues(f)}
              : D \in SUBSET keys }

\* error.details of schema.validate(data, ...): one detail per violated rule
RECURSIVE ValidateDetails(_, _, _)
ValidateDetails(schema, data, k) ==
  IF k > Len(schema.order) THEN <<>>
  ELSE LET f == schema.order[k]
           here == IF f \notin DOMAIN data
                     THEN IF f \in schema.required
                            THEN <<[field |-> f, type |-> "any.required"]>>
                            ELSE <<>>
                   ELSE [n \in DOMAIN FieldViolations(f, data[f]) |->
                           [field |-> f, type |-> FieldViolations(f, data[f])[n],
                            value |-> data[f]]]
       IN  here \o ValidateDetails(schema, data, k + 1)

\* value of schema.validate(data, ...): declared keys converted, defaults
\* applied, unknown keys stripped
ValidateValue(schema, data) ==
  LET declared == {schema.order[k] : k \in DOMAIN schema.order}
  IN  [f \in (DOMAIN data \cap declared) \cup DOMAIN schema.defaults |->
         IF f \in DOMAIN data THEN FieldConvert(f, data[f]) ELSE schema.defaults[f]]

\* variant of ValidateFirebase that assigns the value before looking at error
ValidateFirebaseAssignsFirst(schema, data) ==
  LET details == ValidateDetails(schema, data, 1)
  IN  IF details # <<>>
        THEN [part |-> ValidateValue(schema, data), next |-> 0, status |-> 400,
              body |-> ResponseValidation(details)]
      ELSE [part |-> ValidateValue(schema, data), next |-> 1, status |-> 0,
            body |-> NoResp]

\* validateFirebase(schema, source) on a request whose part is data: the part
\* afterwards, how often next was called, and the response
ValidateFirebase(schema, data) ==
  LET details == ValidateDetails(schema, data, 1)
  IN  IF details # <<>>
        THEN [part |-> data, next |-> 0, status |-> 400,
              body |-> ResponseValidation(details)]
      ELSE [part |-> ValidateValue(schema, data), next |-> 1, status |-> 0,
            body |-> NoResp]

\* A request reaches the validator of the named schema.
ValidateRequest(name, data) ==
  /\ val' = [ran |-> TRUE, schema |-> name, before |-> data,
             out |-> ValidateFirebase(ValidateSchemas[name], data)]
  /\ UNCHANGED <<pipeVars, docVars, san, built, fb, own, caught>>

NextValidate ==
  \E name \in DOMAIN ValidateSchemas : \E data \in PartsOf(name) :
    ValidateRequest(name, data)

SpecValidate == Init /\ [][NextValidate]_vars

\* ------------------------------------------------------------ caught errors
\* The places that answer a request after an exception was caught, each given
\* the exception (its message and stack) and process.env.NODE_ENV.
ErrorSites == {"app error handler", "handler catch", "middleware catch", "service catch"}
RuntimeModes == {"development", "production", "unset"}
Exceptions ==
  [message : {"ECONNRESET 10.1.2.3:443", "Cannot read properties of null", "7 PERMISSION_DENIED"},
   stack : {"at verifyIdToken (part_003:36)", "at Layer.handle (router.js:95)"}]

\* what the client is sent: app.use((error, req, res, next) => ...) of the
\* application, the catch of a route handler, the catch of a middleware
\* (FirebaseResponse.error), and the catch of a service method whose envelope
\* the handler sends with the route's failure status
ErrorAnswer(site, mode, error) ==
  CASE site = "app error handler" ->
         [status |-> 500,
          body |-> [success |-> FALSE, message |-> "Internal server error",
                    error |-> IF mode = "development" THEN error.message
                              ELSE "Server error"]]
    [] site = "handler catch" ->
         [status |-> 500, body |-> [success |-> FALSE, error |-> error.message]]
    [] site = "middleware catch" ->
         [status |-> 500,
          body |-> [success |-> FALSE,
                    error |-> IF mode = "development"
                                THEN [message |-> error.message, code |-> "UNKNOWN_ERROR",
                                      stack |-> error.stack]
                                ELSE [message |-> error.message, code |-> "UNKNOWN_ERROR"]]]
    [] OTHER ->
         [status |-> 400,
          body |-> [success |-> FALSE,
                    error |-> IF mode = "development"
                                THEN [message |-> error.message, code |-> "UNKNOWN_ERROR",
                                      stack |-> error.stack]
                                ELSE [message |-> error.message, code |-> "UNKNOWN_ERROR"]]]

\* Two requests fail at the same place, in the same mode, with the exceptions
\* first and second.
ErrorPair(site, mode, first, second) ==
  /\ caught' = [ran |-> TRUE, site |-> site, mode |-> mode,
                first |-> first, second |-> second,
                a |-> ErrorAnswer(site, mode, first),
                b |-> ErrorAnswer(site, mode, second)]
  /\ UNCHANGED <<pipeVars, docVars, san, built, fb, own, val>>

NextErrors ==
  \E site \in ErrorSites, mode \in RuntimeModes, first \in Exceptions, second \in Exceptions :
    ErrorPair(site, mode, first, second)

SpecErrors == Init /\ [][NextErrors]_vars

\* ------------------------------------------------- queries and the search
\* where(field, operator, value) of the provider: a document without the
\* field matches no filter on it, "!=" included
Matches(doc, filter) ==
  /\ filter.field \in DOMAIN doc
  /\ CASE filter.operator = "==" -> doc[filter.field] = filter.value
       [] filter.operator = "!=" -> doc[filter.field] # filter.value
       [] OTHER -> FALSE

MatchesAll(doc, filters) == \A i \in 1..Len(filters) : Matches(doc, filters[i])

\* query.where('deleted', '!=', true)
NotDeletedFilter == [field |-> "deleted", operator |-> "!=", value |-> "true"]

\* the strings v with term <= v <= term + '': those that start with term
StartsWith ==
  ("x" :> {"x"}) @@ ("xy" :> {"x", "xy"}) @@ ("y" :> {"y"})
  @@ ("true" :> {"true"}) @@ ("false" :> {"false"}) @@ ("alice" :> {"alice"})
  @@ (ServerStamp :> {})

\* queryDocuments(collection, {filters, includeDeleted}); no orderBy, no
\* startAfter, and fewer documents than the limit
QueryDocuments(st, filters, includeDeleted) ==
  LET query == (IF ~includeDeleted THEN <<NotDeletedFilter>> ELSE <<>>) \o filters
      documents == {id \in DOMAIN st : MatchesAll(st[id], query)}
  IN  ResponseSuccess([documents |-> documents, count |-> Cardinality(documents)],
                      "Documents queried successfully")

\* searchDocuments(collection, searchTerm): one query per search field, each a
\* range on the field and the "!=" on deleted; the provider answers such a
\* query or rejects it (inequalities on two fields, no index), and a rejected
\* query rejects Promise.all
SearchFields == {"name", "title", "description"}

SearchDocuments(st, searchTerm, answered) ==
  LET docs(field) == {id \in DOMAIN st :
                        /\ field \in DOMAIN st[id]
                        /\ searchTerm \in StartsWith[st[id][field]]
                        /\ Matches(st[id], NotDeletedFilter)}
      uniqueDocs == UNION {docs(field) : field \in SearchFields}
  IN  IF answered
        THEN ResponseSuccess([documents |-> uniqueDocs, count |-> Cardinality(uniqueDocs)],
                             "Search completed successfully")
        ELSE ResponseError("failed-precondition", "searchDocuments",
                           [collection |-> Collection, searchTerm |-> searchTerm])

\* what clients store: with and without a deleted field of their own
QueryDatas == { [name |-> "x"], [title |-> "xy"], [name |-> "y", deleted |-> "false"] }
QueryFilters == { <<>>, <<[field |-> "name", operator |-> "==", value |-> "x"]>> }
SearchTerms == {"x"}

\* res.status(result.success ? 200 : 400).json(result)
HandlerAnswer(c, result) ==
  [c EXCEPT !.pc = "done", !.result = result,
            !.status = IF result.success THEN 200 ELSE 400]

\* POST /collections/:collection/query and GET .../documents: one remote call
QueryCall(s, filters, includeDeleted) ==
  /\ calls[s].pc = "idle"
  /\ started < MaxCalls
  /\ LET c == [IdleCall EXCEPT !.op = "query", !.filters = filters,
                               !.includeDeleted = includeDeleted, !.before = store]
     IN  calls' = [calls EXCEPT ![s] =
                     HandlerAnswer(c, QueryDocuments(store, filters, includeDeleted))]
  /\ started' = started + 1
  /\ UNCHANGED <<store, nextAuto, hardDeleted, lastCreate>>
  /\ UNCHANGED <<pipeVars, libVars>>

\* GET /collections/:collection/search
SearchCall(s, searchTerm, answered) ==
  /\ calls[s].pc = "idle"
  /\ started < MaxCalls
  /\ LET c == [IdleCall EXCEPT !.op = "search", !.term = searchTerm, !.before = store]
     IN  calls' = [calls EXCEPT ![s] =
                     HandlerAnswer(c, SearchDocuments(store, searchTerm, answered))]
  /\ started' = started + 1
  /\ UNCHANGED <<store, nextAuto, hardDeleted, lastCreate>>
  /\ UNCHANGED <<pipeVars, libVars>>

NextQuery ==
  \/ \E s \in Slots, data \in QueryDatas, userId \in UserIds :
       CreateCall(s, data, Null, userId)
  \/ \E s \in Slots, docId \in {AutoIds[1]} : DeleteStart(s, docId, FALSE, "alice")
  \/ \E s \in Slots : DeleteFinish(s)
  \/ \E s \in Slots, filters \in QueryFilters, includeDeleted \in BOOLEAN :
       QueryCall(s, filters, includeDeleted)
  \/ \E s \in Slots, searchTerm \in SearchTerms, answered \in BOOLEAN :
       SearchCall(s, searchTerm, answered)
  \/ \E s \in Slots : Finish(s)

SpecQuery == Init /\ [][NextQuery]_vars

\* ------------------------------------------------------------------ claims
\* C1: a request without a bearer credential on a route that requires
\* authentication is answered 401 MISSING_TOKEN, and neither the Auth service
\* nor the handler is invoked.
C1_MissingTokenAnswered401 ==
  (req.pc = "done" /\ HasStage(req.route, "verifyFirebaseToken")
     /\ ~(Len(req.header) > 0 /\ req.header[1] = "Bearer "))
  => /\ req.status = 401
     /\ req.resp.error.code = "MISSING_TOKEN"
     /\ req.authCalls = 0
     /\ ~req.handlerCalled

C3_RoleGate ==
  /\ (req.pc = "done" /\ req.roleSeen.exists
        /\ "admin" \notin req.roleSeen.roles /\ req.roleSeen.role # "admin")
     => /\ req.status = 403
        /\ req.resp.error.code = "INSUFFICIENT_ROLE"
        /\ ~req.rolePassed
        /\ ~req.handlerCalled
  /\ (req.roleSeen.exists
        /\ ("admin" \in req.roleSeen.roles \/ req.roleSeen.role = "admin"))
     => /\ req.rolePassed
        /\ req.handlerCalled \/ (req.pc = "done" /\ req.status = 400)

\* the same request, answered 403 before, reaches the handler after the grant
C3_Witness ==
  req.retryOfDenied /\ req.handlerCalled /\ req.rolePassed

\* C4: on the admin routes the handler runs, and the administrative service
\* call is made, only for a request whose token was verified and whose user
\* record was seen to carry the admin role.
C4_AdminOnly ==
  /\ req.adminCalls > 0 => req.route \in AdminRoutes /\ req.handlerCalled
  /\ (req.route \in AdminRoutes /\ req.handlerCalled)
     => /\ req.verifyOutcome = "ok"
        /\ req.user = TokenOwner[req.token]
        /\ req.roleSeen.exists
        /\ "admin" \in req.roleSeen.roles \/ req.roleSeen.role = "admin"

C4_Witness ==
  req.pc = "done" /\ req.route \in AdminRoutes /\ req.handlerCalled /\ req.status = 201

\* C5: per key, a request is passed exactly when fewer than the maximum of the
\* earlier passed requests of that key lie within the window before it, so
\* the first N pass, the next one within the window is answered 429 with a
\* retryAfter of at least one second, and rejected requests never count.
C5_SlidingWindow ==
  \A i \in 1..Len(hist) :
    LET e == hist[i]
        prior == {j \in 1..(i - 1) : /\ hist[j].key = e.key
                                     /\ hist[j].pass
                                     /\ hist[j].t > e.t - WindowMs}
    IN  /\ e.pass <=> Cardinality(prior) < MaxRequests
        /\ ~e.pass => e.retryAfter >= 1

\* N passed, then a rejection, then (the window over) the key passes again
C5_Witness ==
  \E i, j \in 1..Len(hist) :
    /\ i < j
    /\ hist[i].key = hist[j].key
    /\ ~hist[i].pass
    /\ hist[j].pass
    /\ Cardinality({k \in 1..(i - 1) : hist[k].key = hist[i].key /\ hist[k].pass}) = MaxRequests

\* C6: the limiter counts an authenticated request against the identity's id.
C6_KeyedByIdentity ==
  (req.user # Null /\ req.rlKey # Null) => req.rlKey = req.user

C8_CreateGetRoundTrip ==
  \A s \in Slots :
    (calls[s].pc = "done" /\ calls[s].op = "get" /\ calls[s].roundTrip)
    => /\ calls[s].result.success
       /\ \A k \in DOMAIN calls[s].sent :
            k \in DOMAIN calls[s].result.data /\ calls[s].result.data[k] = calls[s].sent[k]
       /\ calls[s].result.data.id = calls[s].id
       /\ calls[s].result.data.createdAt = ServerStamp
       /\ calls[s].result.data.updatedAt = ServerStamp

C10_BatchAtomic ==
  \A s \in Slots :
    (calls[s].pc = "done" /\ calls[s].op = "batch")
    => IF calls[s].count >= 1 /\ calls[s].count <= MaxBatchOps
         THEN \/ /\ "summary" \in DOMAIN calls[s].result
                 /\ calls[s].applied = 1..calls[s].count
              \/ /\ "summary" \notin DOMAIN calls[s].result
                 /\ calls[s].result.success = FALSE
                 /\ calls[s].applied = {}
                 /\ store = calls[s].before
         ELSE /\ calls[s].status = 400
              /\ calls[s].applied = {}
              /\ store = calls[s].before

\* C11: every string leaf that sanitizeFirebaseData leaves in the body
\* contains neither the literal '<script>' nor the literal 'javascript:'.
C11_SanitizedIsClean ==
  san.ran
  => \A k \in DOMAIN san.body :
       ~HasScriptTag(san.body[k]) /\ ~HasJavascript(san.body[k])

\* C12: every envelope a response builder produces has a boolean success and
\* one of two shapes: success = TRUE with a message and no error object, or
\* success = FALSE with an error object that carries code, type and message.
C12_TwoShapes ==
  built.builder # Null
  => /\ built.envelope.success \in BOOLEAN
     /\ built.envelope.success
        => "message" \in DOMAIN built.envelope /\ "error" \notin DOMAIN built.envelope
     /\ ~built.envelope.success
        => /\ "error" \in DOMAIN built.envelope
           /\ {"code", "type", "message"} \subseteq DOMAIN built.envelope.error


\* C13: for every answered request the HTTP status mirrors the envelope:
\* 200/201 only with success, 400 only with a validation envelope, 401 only
\* with an authentication envelope, 403 only with an authorization envelope,
\* 404 only with a not-found envelope, 429 only from the limiter, and an
\* untyped (unmapped) provider failure is answered 500.
C13_StatusMirrorsEnvelope ==
  req.pc = "done"
  => LET e == req.resp
         Typed(t) == /\ "error" \in DOMAIN e
                     /\ "type" \in DOMAIN e.error
                     /\ e.error.type = t
         RateLimited == /\ "error" \in DOMAIN e
                        /\ "operation" \in DOMAIN e.error
                        /\ e.error.operation = "rate limiting"
         Unmapped == /\ ~e.success
                     /\ "error" \in DOMAIN e
                     /\ "type" \notin DOMAIN e.error
                     /\ ~RateLimited
     IN  /\ req.status \in {200, 201} => e.success
         /\ req.status = 400 => "type" \in DOMAIN e /\ e.type = "VALIDATION_ERROR"
         /\ req.status = 401 => Typed("AUTHENTICATION_ERROR")
         /\ req.status = 403 => Typed("AUTHORIZATION_ERROR")
         /\ req.status = 404 => Typed("RESOURCE_ERROR")
         /\ req.status = 429 => RateLimited
         /\ Unmapped => req.status = 500

\* C14: in a process started without configured credentials, every request to
\* a path under /api/firebase/ other than /api/firebase/info is answered 503
\* with success=false and reaches no router (so no capability service), and
\* GET /api/firebase/info answers configured=false.
C14_UnconfiguredAnswered503 ==
  (fb.last.kind = "http" /\ ~IsConfigured(fb.env))
  => /\ (UnderFirebase(fb.last.path) /\ fb.last.path # "/api/firebase/info")
        => /\ fb.last.status = 503
           /\ "success" \in DOMAIN fb.last.body /\ ~fb.last.body.success
           /\ ~fb.last.routed
     /\ (fb.last.method = "GET" /\ fb.last.path = "/api/firebase/info")
        => /\ "configured" \in DOMAIN fb.last.body
           /\ ~fb.last.body.configured

\* C15: every call of a service method completes without a throw and without a
\* rejected promise, and a call that met a failure (of initialize() or of the
\* provider) completes with an envelope whose success is false.
C15_NoThrowNoRejection ==
  fb.last.kind = "service"
  => /\ fb.last.outcome \notin {"threw", "rejected"}
     /\ (fb.last.initError \/ (fb.last.remote /\ ~fb.last.success))
        => fb.last.outcome = "envelope" /\ ~fb.last.success

\* C16: admin.initializeApp has succeeded at most once, and every call of a
\* configuration function or service method made while the handle is set
\* returns or uses that same handle without constructing again.
C16_ConstructedAtMostOnce ==
  /\ fb.constructed <= 1
  /\ fb.firebaseApp \in {0, 1}
  /\ (fb.last.kind \in {"config", "service"} /\ fb.last.appBefore # 0)
     => /\ ~fb.last.built
        /\ ~fb.last.initError
        /\ fb.last.handle = fb.last.appBefore

\* initializeFirebaseApp itself is called again after the handle was built,
\* in a process whose first attempt had failed
C16_Witness ==
  /\ fb.last.kind = "config" /\ fb.last.op = "initializeFirebaseApp"
  /\ fb.last.appBefore = 1 /\ fb.last.handle = 1
  /\ fb.failed

\* C17: a construction attempt takes the first credential source, in the order
\* file, inline key, ambient default, that yields a credential, and fails only
\* when none of the three does.
C17_FirstWorkingSourceWins ==
  (fb.last.kind \in {"config", "service"} /\ fb.last.appBefore = 0)
  => LET fileOk == fb.files.account = "good"
         keyOk == fb.env.privateKey /\ fb.env.clientEmail /\ fb.env.keyValid
         adcOk == fb.files.adc
     IN  /\ fb.last.initError <=> ~(fileOk \/ keyOk \/ adcOk)
         /\ fb.last.built
            => fb.source = IF fileOk THEN "file"
                           ELSE IF keyOk THEN "inline" ELSE "default"

\* C18: a service call that finds the handle unset attempts the construction
\* itself.  While the configuration yields no credential the call surfaces the
\* initialization error (as an error envelope or a throw), makes no provider
\* call and leaves the handle unset; once the configuration yields a
\* credential the next call constructs the handle and goes on to the provider.
C18_InitErrorUntilFixed ==
  (fb.last.kind = "service" /\ fb.last.appBefore = 0)
  => IF Credential(fb.env, fb.files) = "throw"
       THEN /\ fb.last.initError
            /\ fb.last.outcome \in {"envelope", "threw"}
            /\ ~fb.last.success
            /\ ~fb.last.remote
            /\ ~fb.last.built
            /\ fb.firebaseApp = 0
       ELSE /\ ~fb.last.initError
            /\ fb.last.built
            /\ fb.firebaseApp # 0
            /\ fb.last.op # "ref" => fb.last.remote

\* an attempt failed, the credential file was put right, and the next service
\* call built the handle and reached the provider
C18_Witness ==
  /\ fb.failed
  /\ fb.last.kind = "service" /\ fb.last.appBefore = 0
  /\ fb.last.built /\ fb.last.remote /\ fb.last.success

C20_OwnershipGate ==
  (own.ran /\ own.user # Null)
  => LET param == own.params[own.paramName]
         supplied == IF param \notin {Null, ""} THEN param ELSE own.body.userId
     IN  /\ own.out.next <=> supplied = own.user
         /\ own.out.next => own.out.status = 0
         /\ (supplied \notin {Null, ""} /\ supplied # own.user)
            => /\ own.out.status = 403
               /\ own.out.body.error.code = "OWNERSHIP_REQUIRED"
               /\ own.out.body.error.type = "AUTHORIZATION_ERROR"
         /\ supplied \in {Null, ""}
            => /\ own.out.status = 400
               /\ ~own.out.body.success
               /\ "type" \notin DOMAIN own.out.body.error
               /\ own.out.body.error.code # "OWNERSHIP_REQUIRED"

\* the parameter names the caller although the body names someone else: next
C20_Witness ==
  /\ own.ran /\ own.user = "alice"
  /\ own.params[own.paramName] = "alice" /\ own.body.userId = "bob"
  /\ own.out.next

\* C21 (as stated): a failed validation sends one error entry per offending
\* field.
C21_OneErrorPerField ==
  (val.ran /\ val.out.status = 400)
  => LET schema == ValidateSchemas[val.schema]
         declared == {schema.order[k] : k \in DOMAIN schema.order}
         offending == {f \in declared :
                         \/ f \in DOMAIN val.before /\ FieldViolations(f, val.before[f]) # <<>>
                         \/ f \notin DOMAIN val.before /\ f \in schema.required}
     IN  Len(val.out.body.errors) = Cardinality(offending)

\* C21: validateFirebase has two outcomes.  When no declared key violates a
\* rule and no required key is missing, the part becomes the coerced value
\* (declared keys converted, defaults applied, unknown keys stripped), next is
\* called once and nothing is sent.  Otherwise the part is left as it was,
\* next is not called, and a 400 validation envelope is sent that holds one
\* entry per violated rule: every offending key has at least one entry and
\* every entry names an offending key.
C21_ValidateTwoOutcomes ==
  val.ran
  => LET schema == ValidateSchemas[val.schema]
         declared == {schema.order[k] : k \in DOMAIN schema.order}
         offending == {f \in declared :
                         \/ f \in DOMAIN val.before /\ FieldViolations(f, val.before[f]) # <<>>
                         \/ f \notin DOMAIN val.before /\ f \in schema.required}
         errors == val.out.body.errors
     IN  IF offending = {}
           THEN /\ val.out.next = 1 /\ val.out.status = 0
                /\ DOMAIN val.out.part
                     = (DOMAIN val.before \cap declared) \cup DOMAIN schema.defaults
                /\ \A f \in DOMAIN val.out.part :
                     val.out.part[f] = IF f \in DOMAIN val.before
                                         THEN FieldConvert(f, val.before[f])
                                         ELSE schema.defaults[f]
           ELSE /\ val.out.next = 0 /\ val.out.status = 400
                /\ val.out.part = val.before
                /\ val.out.body.type = "VALIDATION_ERROR" /\ ~val.out.body.success
                /\ {errors[n].field : n \in DOMAIN errors} = offending
                /\ \A f \in offending :
                     Cardinality({n \in DOMAIN errors : errors[n].field = f})
                       = IF f \in DOMAIN val.before
                           THEN Len(FieldViolations(f, val.before[f])) ELSE 1

\* a part whose uid is too long and holds a hyphen was refused with two
\* entries for that one key, and left as it was
C21_Witness ==
  /\ val.ran /\ val.out.status = 400 /\ val.out.next = 0
  /\ "uid" \in DOMAIN val.before /\ val.before.uid = "129 characters with -"
  /\ Len(val.out.body.errors) = 2
  /\ val.out.part = val.before

\* C22: a request is answered exactly once.  A stage that refuses it answers
\* it, and then no later stage, no handler and no service call of a later
\* stage runs; the handler runs only for a request that every stage before it
\* let through (limiter, token verification, role gate, schemas).
C22_TerminalAtFirstFailure ==
  /\ req.sent <= 1
  /\ req.pc = "done" <=> req.sent = 1
  /\ (req.pc = "done" /\ ~req.handlerCalled)
     => /\ req.at < Len(Chain(req.route))
        /\ req.status \in {400, 401, 403, 429, 500}
        /\ req.adminCalls = 0
        /\ req.status = 429 => req.authCalls = 0
        /\ (req.status = 401 /\ req.verifyOutcome = Null) => req.authCalls = 0
        /\ ~req.rolePassed \/ req.status = 400
  /\ req.handlerCalled
     => /\ req.at = Len(Chain(req.route))
        /\ req.rlKey # Null
        /\ req.invalid \notin ValidatedParts(req.route)
        /\ HasStage(req.route, "verifyFirebaseToken")
           => req.verifyOutcome = "ok" /\ req.user # Null
        /\ HasStage(req.route, "requireAdmin") => req.rolePassed

\* a request with a verified admin token is refused by the body schema, the
\* last stage before the handler
C22_Witness ==
  /\ req.pc = "done" /\ req.status = 400 /\ req.sent = 1
  /\ req.rolePassed /\ ~req.handlerCalled
  /\ req.invalid = "body"

\* C23: outside development mode, a request that fails with an exception is
\* answered 500, and two requests that fail at the same place with different
\* messages or stacks are sent the same body.
C23_NoInternalDetail ==
  (caught.ran /\ caught.mode # "development")
  => /\ caught.a.status = 500 /\ caught.b.status = 500
     /\ ~caught.a.body.success
     /\ caught.a.body = caught.b.body

\* C24: no validator is given a body or query that the sanitizer has not
\* rewritten before.
C24_SanitizedBeforeValidation ==
  ~req.rawSeen

\* C25: the limiter checks and records in one step, so in every state and
\* for every key the recorded timestamps that lie inside the current window
\* are at most the configured maximum.
C25_NeverOverMaximum ==
  \A l \in DOMAIN limiters : \A k \in DOMAIN limiters[l] :
    Len(FilterNewer(limiters[l][k], now - WindowMs)) <= MaxRequests

\* a key is at its maximum inside the window and its request was just refused
C25_Witness ==
  /\ hist # <<>>
  /\ ~hist[Len(hist)].pass
  /\ hist[Len(hist)].key \in DOMAIN limiters["auth"]
  /\ Len(FilterNewer(limiters["auth"][hist[Len(hist)].key], now - WindowMs)) = MaxRequests

\* C26: a document without a deleted field that matches the other filters is
\* among the documents of a query, and of a search, that does not ask for
\* deleted ones.
C26_AbsentFlagIncluded ==
  \A s \in Slots :
    LET c == calls[s]
        wanted == {id \in DOMAIN c.before :
                     /\ "deleted" \notin DOMAIN c.before[id]
                     /\ IF c.op = "query"
                          THEN MatchesAll(c.before[id], c.filters)
                          ELSE \E field \in SearchFields :
                                 /\ field \in DOMAIN c.before[id]
                                 /\ c.term \in StartsWith[c.before[id][field]]}
    IN  (c.pc = "done" /\ c.op \in {"query", "search"} /\ ~c.includeDeleted)
          => /\ c.result.success
             /\ wanted \subseteq c.result.data.documents

\* C27: a soft delete of an existing document succeeds and leaves the record
\* in place with deleted = true, however often it is repeated; a read of an
\* existing document answers 200 with the record; a delete of an existing
\* document is never answered not-found at its existence read; and a record
\* leaves the store only in the step of a hard delete, its deleted = true
\* staying until then unless the document is created anew.
C27_SoftDeleteKeepsRecord ==
  [][ /\ \A s \in Slots :
           LET c == calls[s]
               d == calls'[s]
           IN  /\ (c.pc = "deleting" /\ d.pc = "done" /\ ~c.hardDelete
                     /\ c.id \in DOMAIN store)
                    => /\ d.result.success
                       /\ d.status = 200
                       /\ c.id \in DOMAIN store'
                       /\ store'[c.id].deleted = "true"
               /\ (c.pc = "idle" /\ d.op = "delete" /\ d.id \in DOMAIN store)
                    => d.pc = "deleting"
               /\ (c.pc = "idle" /\ d.op = "get" /\ d.id \in DOMAIN store)
                    => /\ d.result.success
                       /\ d.status = 200
                       /\ d.result.data = Spread([id |-> d.id], store[d.id])
      /\ \A id \in DOMAIN store :
           IF id \notin DOMAIN store'
             THEN \E s \in Slots : /\ calls[s].pc = "deleting"
                                   /\ calls[s].hardDelete
                                   /\ calls[s].id = id
                                   /\ calls'[s].pc = "done"
             ELSE ("deleted" \in DOMAIN store[id] /\ store[id].deleted = "true")
                    => \/ ("deleted" \in DOMAIN store'[id] /\ store'[id].deleted = "true")
                       \/ \E s \in Slots : calls[s].pc = "idle" /\ calls'[s].op = "create"
    ]_vars

\* a soft delete of x has answered success and a read of x answers 200 with
\* the record, deleted = true
C27_Witness ==
  \E s, t \in Slots :
    /\ calls[s].pc = "done" /\ calls[s].op = "delete" /\ ~calls[s].hardDelete
    /\ calls[s].result.success
    /\ calls[t].pc = "done" /\ calls[t].op = "get" /\ calls[t].id = calls[s].id
    /\ calls[t].status = 200
    /\ calls[t].result.success
    /\ "deleted" \in DOMAIN calls[t].result.data
    /\ calls[t].result.data.deleted = "true"

\* C28: on a route with optional authentication, a request whose bearer token
\* failed verification is answered 401 with the failure envelope; no later
\* stage runs, the handler included, and it does not go on as anonymous.
C28_FailedTokenNotAnonymous ==
  (/\ req.pc # "idle"
   /\ HasStage(req.route, "optionalFirebaseAuth")
   /\ req.verifyOutcome \notin {Null, "ok"})
  => /\ req.pc = "done"
     /\ req.status = 401
     /\ req.resp.success = FALSE
     /\ ~req.handlerCalled
     /\ Chain(req.route)[req.at] = "optionalFirebaseAuth"

\* an expired token of a known user on the optional route was answered 401
C28_Witness ==
  /\ req.pc = "done" /\ req.status = 401
  /\ HasStage(req.route, "optionalFirebaseAuth")
  /\ req.token \in DOMAIN TokenOwner
  /\ req.verifyOutcome = "auth/id-token-expired"
  /\ ~req.handlerCalled

\* C29: a POST /custom-token request goes through no token verification and no
\* role gate, whatever its headers: unless the limiter (429) or the body
\* validator (400) answered it, its handler runs, the only call to the Auth
\* service is the handler's, and the answer is the service's: 200 with a token
\* for the uid of the body, or 400.
C29_CustomTokenUnauthenticated ==
  (req.pc # "idle" /\ req.route = "POST /auth/custom-token")
  => /\ req.user = Null
     /\ req.token = <<>>
     /\ req.verifyOutcome = Null
     /\ ~req.rolePassed
     /\ req.handlerCalled <=> ~(req.pc = "done" /\ \/ req.status = 429
                                                   \/ req.status = 400 /\ req.invalid = "body")
     /\ req.authCalls = IF req.handlerCalled THEN 1 ELSE 0
     /\ req.pc = "done" => req.status \in {200, 400, 429}
     /\ (req.pc = "done" /\ req.status = 200)
          => /\ req.resp.success
             /\ req.resp.data.token.uid = req.body.uid
             /\ req.resp.data.token.customToken = <<"customToken", req.body.uid>>

\* a caller without any credential is given a token for a uid of its choice
C29_Witness ==
  /\ req.pc = "done" /\ req.route = "POST /auth/custom-token"
  /\ req.header = <<>>
  /\ req.status = 200
  /\ req.resp.data.token.uid = "mallory"

\* C30: of the hard deletes of one existing document that are in flight
\* together, at most one is answered success: a hard delete is answered
\* success only in the step in which it removes the document, and not-found
\* when the document is gone by the time of its delete.
C30_OneHardDeleteSucceeds ==
  [][ \A s \in Slots :
        (calls[s].pc = "deleting" /\ calls[s].hardDelete /\ calls'[s].pc = "done")
        => IF calls[s].id \in DOMAIN store
             THEN calls'[s].result.success
             ELSE /\ ~calls'[s].result.success
                  /\ calls'[s].status = 404
    ]_vars

====
